---- MODULE Spec2Model ----
(***************************************************************************)
(* A model of the csv based phone billing system (csv_to_avl_tree.c and    *)
(* main.c): the rate AVL tree, the user AVL tree whose nodes own a doubly  *)
(* linked call list, the longest region code match and the line by line    *)
(* loading done by parse_rate_csv and parse_call_csv, the cdr and bill     *)
(* files main then generates, and the teardown of the two trees.           *)
(*                                                                         *)
(* Conventions of the model                                                *)
(*  - a C string is the sequence of its character codes, so that strcmp    *)
(*    and isdigit are computed on the characters as the C library does;    *)
(*  - a tree is a nested value: NULL, or a record holding the node's       *)
(*    fields with its two subtrees in left and right. Every node carries   *)
(*    the address malloc gave it (addr), which is the value of a pointer   *)
(*    to it;                                                               *)
(*  - the call nodes live in a heap (calls): the node at address a is      *)
(*    calls[a], and previous / next / call_list_head hold addresses, the   *)
(*    null pointer being NULLCALL;                                         *)
(*  - a double holding a rate or a price is a whole number of rate units,  *)
(*    so price = rate * duration is exact.                                 *)
(***************************************************************************)
EXTENDS Integers, Sequences, FiniteSets, TLC

VARIABLES
    phase,                \* where main is: "rates", "calls", "cdr", "bills",
                          \* "teardown", "done"; or how it ended early:
                          \* "failed" (EXIT_FAILURE), "exited" (exit(1)),
                          \* "crashed"
    rate_root,            \* main's rate_root: the rate AVL tree
    user_root,            \* parse_call_csv's root: the user AVL tree
    calls,                \* the heap of user_call_list nodes
    brk,                  \* number of tree nodes malloc has handed out
    total_call_number,    \* the global call counter
    total_call_duration,  \* the global duration counter
    total_call_price,     \* the global price counter
    longest_rate_match,   \* insert_call's local: the result of its last search
    errlog,               \* what the last processed line wrote to stderr / stdout
    csv_line,             \* parse_call_csv's csv_line: the fields of the last line read
    rates_seen,           \* history: <<region code, rate>> of each code's first insertion
    callers_seen,         \* history: the caller numbers given to add_user_node
    anonymous_seen,       \* history: number and duration of the anonymous lines
    insert_call_returned, \* what the last call of insert_call returned
    cdr_files,            \* what generate_monthly_cdr_files has written: the
                          \* files and the lines on stderr, and its fopen
                          \* and fclose calls
    bill_files,           \* the same for generate_monthly_bill_files
    released,             \* the teardown's accesses to the blocks, in order,
                          \* and the call list head each user node was left with
    printed               \* what the last print_call_list was given and printed

\* What the loading of the two records leaves alone.
report_vars == <<cdr_files, bill_files, released, printed>>

vars == <<phase, rate_root, user_root, calls, brk, total_call_number,
          total_call_duration, total_call_price, longest_rate_match, errlog,
          csv_line, rates_seen, callers_seen, anonymous_seen,
          insert_call_returned, cdr_files, bill_files, released, printed>>

-----------------------------------------------------------------------------
(* Bounds of the model                                                     *)

\* A run is bounded by the room for tree nodes (rate nodes and user nodes
\* together) and by the number of calls counted (anonymous ones included).

MaxTreeNodes == 6      \* tree nodes when both trees are grown
MaxTreeCalls == 4      \* calls counted when both trees are grown
MaxRateNodes == 5      \* tree nodes when the rate record is the rich input
MaxMatchCalls == 2     \* calls counted when the callee numbers are the rich input
MaxListCalls == 5      \* calls counted when the dates are the rich input
MaxBillNodes == 3      \* tree nodes in the run of the whole pipeline
MaxBillCalls == 3      \* calls counted in the run of the whole pipeline
MaxMonthNodes == 2     \* tree nodes of a run with one code and one subscriber
MaxMonthCalls == 3     \* calls counted when the months are the rich input
MaxClockCalls == 3     \* calls counted when the durations are the rich input
MaxFaultNodes == 3     \* tree nodes when the failures are the rich input
MaxFaultCalls == 3     \* calls counted when the failures are the rich input
MaxTeardownNodes == 5  \* tree nodes when the teardown is the subject
MaxTeardownCalls == 4  \* calls counted when the teardown is the subject
MaxPrintCalls == 4     \* calls counted when the list is printed
MaxCatalogNodes == 4   \* nodes of both trees when the catalog is watched
MaxCatalogCalls == 2   \* calls counted when the catalog is watched
MaxPlaceNodes == 2     \* nodes of both trees when the place of a call is watched
MaxPlaceCalls == 4     \* calls counted when the place of a call is watched
MaxPrintIndex == 3     \* the largest index given to print_call_list

-----------------------------------------------------------------------------
(* C strings                                                               *)

\* The character code of the decimal digit d.
Chr(d) == 48 + d

\* The C string whose characters are the decimal digits ds.
RECURSIVE Str(_)
Str(ds) == IF ds = <<>> THEN <<>> ELSE <<Chr(Head(ds))>> \o Str(Tail(ds))

\* The literal "Anonymous".
Anonymous == <<65, 110, 111, 110, 121, 109, 111, 117, 115>>

isdigit(c) == c >= 48 /\ c <= 57

strlen(s) == Len(s)

\* The sign of strcmp(a, b): the strings are compared character by character,
\* and a proper prefix compares less.
RECURSIVE strcmp(_, _)
strcmp(a, b) ==
    IF a = <<>> /\ b = <<>> THEN 0
    ELSE IF a = <<>> THEN -1
    ELSE IF b = <<>> THEN 1
    ELSE IF Head(a) < Head(b) THEN -1
    ELSE IF Head(a) > Head(b) THEN 1
    ELSE strcmp(Tail(a), Tail(b))

\* strncpy of the first n characters followed by the terminating '\0'.
strncpy(s, n) == SubSeq(s, 1, n)

max(a, b) == IF a > b THEN a ELSE b

\* The null pointer to a tree node.
NULL == [null |-> TRUE]

\* The null pointer to a call node.
NULLCALL == 0

\* The null pointer to a string: a value no C string equals, as a C string
\* holds no character 0.
NULLSTR == <<0>>

-----------------------------------------------------------------------------
(* The rate AVL tree                                                       *)

get_rate_node_height(node) == IF node = NULL THEN 0 ELSE node.height

get_rate_node_balance(node) ==
    IF node = NULL THEN 0
    ELSE get_rate_node_height(node.left) - get_rate_node_height(node.right)

\* The new node is the next one malloc hands out.
make_rate_node(region_code, rate) ==
    [addr |-> brk + 1, region_code |-> region_code, rate |-> rate,
     height |-> 1, left |-> NULL, right |-> NULL]

\* right_rotate_rate as it would be had the two heights been updated in the
\* other order, that of the new subtree root before that of the node below it.
right_rotate_rate_root_first(node) ==
    LET leftChild == node.left
        leftChildRight == leftChild.right
        lowered == [node EXCEPT !.left = leftChildRight,
                        !.height = 1 + max(get_rate_node_height(leftChildRight),
                                           get_rate_node_height(node.right))]
    IN  [leftChild EXCEPT !.right = lowered,
              !.height = 1 + max(get_rate_node_height(leftChild.left),
                                 get_rate_node_height(node))]

right_rotate_rate(node) ==
    LET leftChild == node.left
        leftChildRight == leftChild.right
        lowered == [node EXCEPT !.left = leftChildRight,
                        !.height = 1 + max(get_rate_node_height(leftChildRight),
                                           get_rate_node_height(node.right))]
    IN  [leftChild EXCEPT !.right = lowered,
              !.height = 1 + max(get_rate_node_height(leftChild.left),
                                 get_rate_node_height(lowered))]

left_rotate_rate(node) ==
    LET rightChild == node.right
        rightChildLeft == rightChild.left
        lowered == [node EXCEPT !.right = rightChildLeft,
                        !.height = 1 + max(get_rate_node_height(node.left),
                                           get_rate_node_height(rightChildLeft))]
    IN  [rightChild EXCEPT !.left = lowered,
              !.height = 1 + max(get_rate_node_height(lowered),
                                 get_rate_node_height(rightChild.right))]

\* rebalance_rate as it would be had the two double rotations been written as
\* single ones (the rotation of the child left out).
rebalance_rate_single(linked, region_code) ==
    LET node == [linked EXCEPT !.height =
                    1 + max(get_rate_node_height(linked.left),
                            get_rate_node_height(linked.right))]
        balance == get_rate_node_balance(node)
    IN  IF balance > 1 THEN right_rotate_rate(node)
        ELSE IF balance < -1 THEN left_rotate_rate(node)
        ELSE node

\* The part of add_rate_node after the recursive call has returned: the
\* height update and the four rotation cases, tried in the order of the code.
rebalance_rate(linked, region_code) ==
    LET node == [linked EXCEPT !.height =
                    1 + max(get_rate_node_height(linked.left),
                            get_rate_node_height(linked.right))]
        balance == get_rate_node_balance(node)
    IN  IF balance > 1 /\ strcmp(region_code, node.left.region_code) < 0
          THEN right_rotate_rate(node)
        ELSE IF balance < -1 /\ strcmp(region_code, node.right.region_code) > 0
          THEN left_rotate_rate(node)
        ELSE IF balance > 1 /\ strcmp(region_code, node.left.region_code) > 0
          THEN right_rotate_rate([node EXCEPT !.left = left_rotate_rate(node.left)])
        ELSE IF balance < -1 /\ strcmp(region_code, node.right.region_code) < 0
          THEN left_rotate_rate([node EXCEPT !.right = right_rotate_rate(node.right)])
        ELSE node

\* add_rate_node as it would be had the second comparison been left out, an
\* equal region code going right.
RECURSIVE add_rate_node_equal_right(_, _, _)
add_rate_node_equal_right(node, region_code, rate) ==
    IF node = NULL THEN make_rate_node(region_code, rate)
    ELSE IF strcmp(region_code, node.region_code) < 0
      THEN rebalance_rate(
             [node EXCEPT !.left =
                 add_rate_node_equal_right(node.left, region_code, rate)],
             region_code)
    ELSE rebalance_rate(
             [node EXCEPT !.right =
                 add_rate_node_equal_right(node.right, region_code, rate)],
             region_code)

\* add_rate_node as it would be had a region code found in the tree been given
\* the new rate.
RECURSIVE add_rate_node_overwrite(_, _, _)
add_rate_node_overwrite(node, region_code, rate) ==
    IF node = NULL THEN make_rate_node(region_code, rate)
    ELSE IF strcmp(region_code, node.region_code) < 0
      THEN rebalance_rate(
             [node EXCEPT !.left =
                 add_rate_node_overwrite(node.left, region_code, rate)],
             region_code)
    ELSE IF strcmp(region_code, node.region_code) > 0
      THEN rebalance_rate(
             [node EXCEPT !.right =
                 add_rate_node_overwrite(node.right, region_code, rate)],
             region_code)
    ELSE [node EXCEPT !.rate = rate]

RECURSIVE add_rate_node(_, _, _)
add_rate_node(node, region_code, rate) ==
    IF node = NULL THEN make_rate_node(region_code, rate)
    ELSE IF strcmp(region_code, node.region_code) < 0
      THEN rebalance_rate(
             [node EXCEPT !.left = add_rate_node(node.left, region_code, rate)],
             region_code)
    ELSE IF strcmp(region_code, node.region_code) > 0
      THEN rebalance_rate(
             [node EXCEPT !.right = add_rate_node(node.right, region_code, rate)],
             region_code)
    ELSE node

\* add_rate_node as it would be had it told nothing of a region code it finds
\* in the tree.
add_rate_node_silent(node, region_code) == FALSE

\* Whether add_rate_node writes "region code already found in tree" to stderr:
\* it does when its descent reaches a node holding region_code.
RECURSIVE add_rate_node_logs(_, _)
add_rate_node_logs(node, region_code) ==
    IF node = NULL THEN FALSE
    ELSE IF strcmp(region_code, node.region_code) < 0
      THEN add_rate_node_logs(node.left, region_code)
    ELSE IF strcmp(region_code, node.region_code) > 0
      THEN add_rate_node_logs(node.right, region_code)
    ELSE TRUE

\* search_rate_tree as it would be had the two subtrees been taken the other
\* way round, the right one for a smaller region code.
RECURSIVE search_rate_tree_swapped(_, _)
search_rate_tree_swapped(root, region_code) ==
    IF root = NULL THEN NULL
    ELSE IF strcmp(region_code, root.region_code) = 0 THEN root
    ELSE IF strcmp(region_code, root.region_code) < 0
      THEN search_rate_tree_swapped(root.right, region_code)
    ELSE search_rate_tree_swapped(root.left, region_code)

RECURSIVE search_rate_tree(_, _)
search_rate_tree(root, region_code) ==
    IF root = NULL THEN NULL
    ELSE IF strcmp(region_code, root.region_code) = 0 THEN root
    ELSE IF strcmp(region_code, root.region_code) < 0
      THEN search_rate_tree(root.left, region_code)
    ELSE search_rate_tree(root.right, region_code)

\* The loop of search_by_longest_region_code_match as it would be had a match
\* been kept only when none was found before (the first match wins).
RECURSIVE longest_match_loop_first(_, _, _, _)
longest_match_loop_first(root, callee_number, attempt_length, current_longest_match) ==
    IF attempt_length <= strlen(callee_number)
      THEN LET new_attempt ==
                  search_rate_tree(root, strncpy(callee_number, attempt_length))
           IN  longest_match_loop_first(root, callee_number, attempt_length + 1,
                   IF new_attempt # NULL /\ current_longest_match = NULL
                     THEN new_attempt
                     ELSE current_longest_match)
      ELSE current_longest_match

\* The loop of search_by_longest_region_code_match from attempt_length on,
\* current_longest_match being the match found so far.
RECURSIVE longest_match_loop(_, _, _, _)
longest_match_loop(root, callee_number, attempt_length, current_longest_match) ==
    IF attempt_length <= strlen(callee_number)
      THEN LET new_attempt ==
                  search_rate_tree(root, strncpy(callee_number, attempt_length))
           IN  longest_match_loop(root, callee_number, attempt_length + 1,
                   IF new_attempt # NULL THEN new_attempt
                                         ELSE current_longest_match)
      ELSE current_longest_match

search_by_longest_region_code_match(root, callee_number) ==
    longest_match_loop(root, callee_number, 1, NULL)

\* traverse_rates_inorder with a visit that notes the node it is given: the
\* nodes in the order they are visited.
RECURSIVE traverse_rates_inorder(_)
traverse_rates_inorder(node) ==
    IF node = NULL THEN <<>>
    ELSE traverse_rates_inorder(node.left) \o <<node>>
            \o traverse_rates_inorder(node.right)

-----------------------------------------------------------------------------
(* Pattern checking functions                                              *)

RECURSIVE skip_leading(_, _)
skip_leading(s, skipped) ==
    IF s # <<>> /\ Head(s) \in skipped THEN skip_leading(Tail(s), skipped) ELSE s

\* The legality flag of both validators: set by the first character, cleared
\* by the first character that is no digit, never set for the empty string.
legal_digits(s) == s # <<>> /\ \A i \in 1..Len(s) : isdigit(s[i])

validate_phone_number(phone_number) ==
    LET stripped == skip_leading(phone_number, {Chr(0)})
    IN  IF strlen(stripped) > 15 THEN NULLSTR
        ELSE IF legal_digits(stripped) THEN stripped ELSE NULLSTR

validate_region_code(region_code) ==
    LET stripped == skip_leading(region_code, {Chr(0), 43})
    IN  IF strlen(stripped) > 11 THEN NULLSTR
        ELSE IF legal_digits(stripped) THEN stripped ELSE NULLSTR

-----------------------------------------------------------------------------
(* The call linked list                                                    *)

get_call_node_datetime(heap, node) ==
    IF node = NULLCALL THEN 0 ELSE (heap[node].year * 100) + heap[node].month

\* The while loop of insert_call as it would be had it looked for the end of
\* the list only.
RECURSIVE insert_call_scan_tail(_, _, _)
insert_call_scan_tail(heap, current, new_node) ==
    IF heap[current].next = NULLCALL
      THEN [heap EXCEPT ![current].next = new_node,
                        ![new_node].previous = current,
                        ![new_node].next = NULLCALL]
    ELSE insert_call_scan_tail(heap, heap[current].next, new_node)

\* The while loop of insert_call as it would be had the node found after the
\* new one kept its previous pointer.
RECURSIVE insert_call_scan_forward(_, _, _)
insert_call_scan_forward(heap, current, new_node) ==
    IF get_call_node_datetime(heap, current) > get_call_node_datetime(heap, new_node)
      THEN [heap EXCEPT ![heap[current].previous].next = new_node,
                        ![new_node].previous = heap[current].previous,
                        ![new_node].next = current]
    ELSE IF heap[current].next = NULLCALL
      THEN [heap EXCEPT ![current].next = new_node,
                        ![new_node].previous = current,
                        ![new_node].next = NULLCALL]
    ELSE insert_call_scan_forward(heap, heap[current].next, new_node)

\* The while loop of insert_call, current being the node it looks at.
RECURSIVE insert_call_scan(_, _, _)
insert_call_scan(heap, current, new_node) ==
    IF get_call_node_datetime(heap, current) > get_call_node_datetime(heap, new_node)
      THEN [heap EXCEPT ![heap[current].previous].next = new_node,
                        ![new_node].previous = heap[current].previous,
                        ![new_node].next = current,
                        ![current].previous = new_node]
    ELSE IF heap[current].next = NULLCALL
      THEN [heap EXCEPT ![current].next = new_node,
                        ![new_node].previous = current,
                        ![new_node].next = NULLCALL]
    ELSE insert_call_scan(heap, heap[current].next, new_node)

\* insert_call as it would be had the price been the rate alone, the duration
\* left out of the product.
insert_call_flat_price(m, head, callee_number, duration, year, month, day, rate_tree) ==
    LET new_node == Len(m.calls) + 1
        match == search_by_longest_region_code_match(rate_tree, callee_number)
        price == IF match = NULL THEN 0 ELSE match.rate
        fresh == [callee |-> callee_number, duration |-> duration, price |-> price,
                  year |-> year, month |-> month, day |-> day,
                  previous |-> NULLCALL, next |-> NULLCALL]
        heap == Append(m.calls, fresh)
        counted == [m EXCEPT !.total_call_number = @ + 1,
                             !.total_call_duration = @ + duration,
                             !.total_call_price = @ + price]
    IN  IF callee_number = NULLSTR \/ m.exhausted
          THEN [m |-> m, head |-> head, ret |-> 0, match |-> NULL,
                rate_tree |-> rate_tree]
        ELSE IF head = NULLCALL
          THEN [m |-> [counted EXCEPT !.calls = heap], head |-> new_node,
                ret |-> 0, match |-> match, rate_tree |-> rate_tree]
        ELSE IF get_call_node_datetime(heap, new_node)
                    <= get_call_node_datetime(heap, head)
          THEN [m |-> [counted EXCEPT !.calls =
                          [heap EXCEPT ![new_node].next = head,
                                       ![new_node].previous = NULLCALL,
                                       ![head].previous = new_node]],
                head |-> new_node, ret |-> 1, match |-> match,
                rate_tree |-> rate_tree]
        ELSE [m |-> [counted EXCEPT !.calls = insert_call_scan(heap, head, new_node)],
              head |-> head, ret |-> 1, match |-> match, rate_tree |-> rate_tree]

\* insert_call as it would be had a call with the key of the head been sent
\* down the list, the comparison with the head being < in place of <=.
insert_call_head_strict(m, head, callee_number, duration, year, month, day, rate_tree) ==
    LET new_node == Len(m.calls) + 1
        match == search_by_longest_region_code_match(rate_tree, callee_number)
        price == IF match = NULL THEN 0 ELSE match.rate * duration
        fresh == [callee |-> callee_number, duration |-> duration, price |-> price,
                  year |-> year, month |-> month, day |-> day,
                  previous |-> NULLCALL, next |-> NULLCALL]
        heap == Append(m.calls, fresh)
        counted == [m EXCEPT !.total_call_number = @ + 1,
                             !.total_call_duration = @ + duration,
                             !.total_call_price = @ + price]
    IN  IF callee_number = NULLSTR \/ m.exhausted
          THEN [m |-> m, head |-> head, ret |-> 0, match |-> NULL,
                rate_tree |-> rate_tree]
        ELSE IF head = NULLCALL
          THEN [m |-> [counted EXCEPT !.calls = heap], head |-> new_node,
                ret |-> 0, match |-> match, rate_tree |-> rate_tree]
        ELSE IF get_call_node_datetime(heap, new_node)
                    < get_call_node_datetime(heap, head)
          THEN [m |-> [counted EXCEPT !.calls =
                          [heap EXCEPT ![new_node].next = head,
                                       ![new_node].previous = NULLCALL,
                                       ![head].previous = new_node]],
                head |-> new_node, ret |-> 1, match |-> match,
                rate_tree |-> rate_tree]
        ELSE [m |-> [counted EXCEPT !.calls = insert_call_scan(heap, head, new_node)],
              head |-> head, ret |-> 1, match |-> match, rate_tree |-> rate_tree]

\* insert_call as it would be had it kept the price of the call in the rate
\* field of the root of the rate tree.
insert_call_writes_rate(m, head, callee_number, duration, year, month, day, rate_tree) ==
    LET new_node == Len(m.calls) + 1
        match == search_by_longest_region_code_match(rate_tree, callee_number)
        price == IF match = NULL THEN 0 ELSE match.rate * duration
        fresh == [callee |-> callee_number, duration |-> duration, price |-> price,
                  year |-> year, month |-> month, day |-> day,
                  previous |-> NULLCALL, next |-> NULLCALL]
        heap == Append(m.calls, fresh)
        counted == [m EXCEPT !.total_call_number = @ + 1,
                             !.total_call_duration = @ + duration,
                             !.total_call_price = @ + price]
        written == IF rate_tree = NULL THEN NULL
                   ELSE [rate_tree EXCEPT !.rate = price]
    IN  IF callee_number = NULLSTR \/ m.exhausted
          THEN [m |-> m, head |-> head, ret |-> 0, match |-> NULL,
                rate_tree |-> rate_tree]
        ELSE IF head = NULLCALL
          THEN [m |-> [counted EXCEPT !.calls = heap], head |-> new_node,
                ret |-> 0, match |-> match, rate_tree |-> written]
        ELSE IF get_call_node_datetime(heap, new_node)
                    <= get_call_node_datetime(heap, head)
          THEN [m |-> [counted EXCEPT !.calls =
                          [heap EXCEPT ![new_node].next = head,
                                       ![new_node].previous = NULLCALL,
                                       ![head].previous = new_node]],
                head |-> new_node, ret |-> 1, match |-> match,
                rate_tree |-> written]
        ELSE [m |-> [counted EXCEPT !.calls = insert_call_scan(heap, head, new_node)],
              head |-> head, ret |-> 1, match |-> match, rate_tree |-> written]

\* insert_call on the memory m (the call heap and the three global counters)
\* and the list whose head pointer is head. The result holds the memory and
\* the head pointer afterwards, the value returned, the local
\* longest_rate_match, and the rate tree behind the pointer it was given.
insert_call(m, head, callee_number, duration, year, month, day, rate_tree) ==
    LET new_node == Len(m.calls) + 1
        match == search_by_longest_region_code_match(rate_tree, callee_number)
        price == IF match = NULL THEN 0 ELSE match.rate * duration
        fresh == [callee |-> callee_number, duration |-> duration, price |-> price,
                  year |-> year, month |-> month, day |-> day,
                  previous |-> NULLCALL, next |-> NULLCALL]
        heap == Append(m.calls, fresh)
        counted == [m EXCEPT !.total_call_number = @ + 1,
                             !.total_call_duration = @ + duration,
                             !.total_call_price = @ + price]
    IN  IF callee_number = NULLSTR \/ m.exhausted
          THEN [m |-> m, head |-> head, ret |-> 0, match |-> NULL,
                rate_tree |-> rate_tree]
        ELSE IF head = NULLCALL
          THEN [m |-> [counted EXCEPT !.calls = heap], head |-> new_node,
                ret |-> 0, match |-> match, rate_tree |-> rate_tree]
        ELSE IF get_call_node_datetime(heap, new_node)
                    <= get_call_node_datetime(heap, head)
          THEN [m |-> [counted EXCEPT !.calls =
                          [heap EXCEPT ![new_node].next = head,
                                       ![new_node].previous = NULLCALL,
                                       ![head].previous = new_node]],
                head |-> new_node, ret |-> 1, match |-> match,
                rate_tree |-> rate_tree]
        ELSE [m |-> [counted EXCEPT !.calls = insert_call_scan(heap, head, new_node)],
              head |-> head, ret |-> 1, match |-> match, rate_tree |-> rate_tree]

-----------------------------------------------------------------------------
(* The user AVL tree                                                       *)

get_user_node_height(node) == IF node = NULL THEN 0 ELSE node.height

get_user_node_balance(node) ==
    IF node = NULL THEN 0
    ELSE get_user_node_height(node.left) - get_user_node_height(node.right)

make_user_node(caller_number) ==
    [addr |-> brk + 1, number |-> caller_number, call_list_head |-> NULLCALL,
     total_call_number |-> 0, total_call_duration |-> 0, total_bill |-> 0,
     height |-> 1, left |-> NULL, right |-> NULL]

\* The while loop of calculate_user_stats from the call node current on.
RECURSIVE user_stats_loop(_, _, _)
user_stats_loop(user, heap, current) ==
    IF current = NULLCALL THEN user
    ELSE user_stats_loop(
           [user EXCEPT !.total_bill = @ + heap[current].price,
                        !.total_call_duration = @ + heap[current].duration,
                        !.total_call_number = @ + 1],
           heap, heap[current].next)

\* calculate_user_stats as it would be had the three totals not been reset.
calculate_user_stats_no_reset(user, heap) ==
    user_stats_loop(user, heap, user.call_list_head)

calculate_user_stats(user, heap) ==
    user_stats_loop([user EXCEPT !.total_bill = 0, !.total_call_duration = 0,
                                 !.total_call_number = 0],
                    heap, user.call_list_head)

right_rotate_user(node) ==
    LET leftChild == node.left
        leftChildRight == leftChild.right
        lowered == [node EXCEPT !.left = leftChildRight,
                        !.height = 1 + max(get_user_node_height(leftChildRight),
                                           get_user_node_height(node.right))]
    IN  [leftChild EXCEPT !.right = lowered,
              !.height = 1 + max(get_user_node_height(leftChild.left),
                                 get_user_node_height(lowered))]

left_rotate_user(node) ==
    LET rightChild == node.right
        rightChildLeft == rightChild.left
        lowered == [node EXCEPT !.right = rightChildLeft,
                        !.height = 1 + max(get_user_node_height(node.left),
                                           get_user_node_height(rightChildLeft))]
    IN  [rightChild EXCEPT !.left = lowered,
              !.height = 1 + max(get_user_node_height(lowered),
                                 get_user_node_height(rightChild.right))]

\* The part of add_user_node after the recursive call has returned.
rebalance_user(linked, caller_number) ==
    LET node == [linked EXCEPT !.height =
                    1 + max(get_user_node_height(linked.left),
                            get_user_node_height(linked.right))]
        balance == get_user_node_balance(node)
    IN  IF balance > 1 /\ strcmp(caller_number, node.left.number) < 0
          THEN right_rotate_user(node)
        ELSE IF balance < -1 /\ strcmp(caller_number, node.right.number) > 0
          THEN left_rotate_user(node)
        ELSE IF balance > 1 /\ strcmp(caller_number, node.left.number) > 0
          THEN right_rotate_user([node EXCEPT !.left = left_rotate_user(node.left)])
        ELSE IF balance < -1 /\ strcmp(caller_number, node.right.number) < 0
          THEN left_rotate_user([node EXCEPT !.right = right_rotate_user(node.right)])
        ELSE node

\* add_user_node as it would be had a caller number equal to the node's been
\* sent down the right subtree.
RECURSIVE add_user_node_equal_right(_, _, _, _, _, _, _, _, _)
add_user_node_equal_right(node, m, caller_number, callee_number, duration, year, month, day, rate_tree) ==
    IF node = NULL
      THEN LET temp_new_user_node == make_user_node(caller_number)
               ins == insert_call(m, temp_new_user_node.call_list_head,
                                  callee_number, duration, year, month, day, rate_tree)
           IN  [node |-> calculate_user_stats(
                            [temp_new_user_node EXCEPT !.call_list_head = ins.head],
                            ins.m.calls),
                m |-> ins.m, ins |-> ins]
    ELSE IF strcmp(caller_number, node.number) < 0
      THEN LET sub == add_user_node_equal_right(node.left, m, caller_number,
                          callee_number, duration, year, month, day, rate_tree)
           IN  [sub EXCEPT !.node =
                   rebalance_user([node EXCEPT !.left = sub.node], caller_number)]
    ELSE LET sub == add_user_node_equal_right(node.right, m, caller_number,
                        callee_number, duration, year, month, day, rate_tree)
         IN  [sub EXCEPT !.node =
                 [node EXCEPT !.right = sub.node,
                              !.height = 1 + max(get_user_node_height(node.left),
                                                 get_user_node_height(sub.node))]]

\* add_user_node on the subtree node and the memory m. The result holds the
\* subtree's new root (node), the memory afterwards (m) and what insert_call
\* gave (ins).
RECURSIVE add_user_node(_, _, _, _, _, _, _, _, _)
add_user_node(node, m, caller_number, callee_number, duration, year, month, day, rate_tree) ==
    IF node = NULL
      THEN LET temp_new_user_node == make_user_node(caller_number)
               ins == insert_call(m, temp_new_user_node.call_list_head,
                                  callee_number, duration, year, month, day, rate_tree)
           IN  [node |-> calculate_user_stats(
                            [temp_new_user_node EXCEPT !.call_list_head = ins.head],
                            ins.m.calls),
                m |-> ins.m, ins |-> ins]
    ELSE IF strcmp(caller_number, node.number) < 0
      THEN LET sub == add_user_node(node.left, m, caller_number, callee_number,
                                    duration, year, month, day, rate_tree)
           IN  [sub EXCEPT !.node =
                   rebalance_user([node EXCEPT !.left = sub.node], caller_number)]
    ELSE IF strcmp(caller_number, node.number) > 0
      THEN LET sub == add_user_node(node.right, m, caller_number, callee_number,
                                    duration, year, month, day, rate_tree)
           IN  [sub EXCEPT !.node =
                   rebalance_user([node EXCEPT !.right = sub.node], caller_number)]
    ELSE LET ins == insert_call(m, node.call_list_head, callee_number, duration,
                                year, month, day, rate_tree)
         IN  [node |-> calculate_user_stats(
                          [node EXCEPT !.call_list_head = ins.head], ins.m.calls),
              m |-> ins.m, ins |-> ins]

\* traverse_users_inorder with a visit that notes the node it is given.
RECURSIVE traverse_users_inorder(_)
traverse_users_inorder(node) ==
    IF node = NULL THEN <<>>
    ELSE traverse_users_inorder(node.left) \o <<node>>
            \o traverse_users_inorder(node.right)

-----------------------------------------------------------------------------
(* The lines of the two csv files                                          *)

CURRENT_YEAR == 2021
TELEPHONE_INVENTION_YEAR == 1876

Date(y, mo, d) == [year |-> y, month |-> mo, day |-> d]

\* The four fields of a line of the call record: the two number tokens, the
\* value atoi gives for the duration token and the date sscanf reads.
CallLine(caller, callee, duration, date) ==
    [caller_number_token |-> caller, callee_number_token |-> callee,
     duration |-> duration, date |-> date]

\* The call heap and the three global counters, as the memory the insertion
\* works on; exhausted tells whether malloc gives NULL to insert_call.
Memory ==
    [calls |-> calls, total_call_number |-> total_call_number,
     total_call_duration |-> total_call_duration,
     total_call_price |-> total_call_price, exhausted |-> FALSE]

\* What parse_call_csv does with the line of an anonymous caller if it had
\* added the duration to the price counter as well.
count_anonymous_billed(m, duration) ==
    [m EXCEPT !.total_call_number = @ + 1,
              !.total_call_duration = @ + duration,
              !.total_call_price = @ + duration]

\* What parse_call_csv does with the line of an anonymous caller if it had
\* left the duration counter alone.
count_anonymous_number_only(m, duration) ==
    [m EXCEPT !.total_call_number = @ + 1]

\* What parse_call_csv does with the line of an anonymous caller.
count_anonymous(m, duration) ==
    [m EXCEPT !.total_call_number = @ + 1,
              !.total_call_duration = @ + duration]

\* The records a run reads are drawn from an envelope env: the region code
\* and rate fields of the rate record, the caller, callee, duration and date
\* fields of the call record, whether malloc gives NULL to insert_call, and
\* the two bounds of the run.

\* Whether add_user_node finds caller_number in the subtree node: whether its
\* descent reaches a node holding it.
RECURSIVE user_present(_, _)
user_present(node, caller_number) ==
    IF node = NULL THEN FALSE
    ELSE IF strcmp(caller_number, node.number) < 0
      THEN user_present(node.left, caller_number)
    ELSE IF strcmp(caller_number, node.number) > 0
      THEN user_present(node.right, caller_number)
    ELSE TRUE

-----------------------------------------------------------------------------
(* The cdr lines                                                           *)

\* The three characters censor_calee_number writes are '*'.
Star == 42

censor_calee_number(callee_number) ==
    LET callee_number_len == strlen(callee_number)
    IN  IF callee_number_len < 3 THEN NULLSTR
        ELSE [i \in 1..callee_number_len |->
                 IF i > callee_number_len - 3 THEN Star ELSE callee_number[i]]

calculate_call_seconds(duration) == duration % 60

\* calculate_call_minutes as it would be had the hours not been taken out.
calculate_call_minutes_whole(duration) == duration \div 60

calculate_call_minutes(duration) ==
    (duration - (3600 * (duration \div 3600))) \div 60

calculate_call_hours(duration) == duration \div 3600

\* The name sprintf gives a file: the user's number, the month and the year,
\* with "-cdr" for a cdr file. NULLSTR when the date is refused.
FileName(user_number, datetime, cdr) ==
    LET month == datetime % 100
        year == (datetime - month) \div 100
    IN  IF month > 12 \/ year < TELEPHONE_INVENTION_YEAR \/ year > CURRENT_YEAR
          THEN NULLSTR
        ELSE <<user_number, month, year, cdr>>

generate_cdr_filename(user_number, datetime) ==
    FileName(user_number, datetime, TRUE)

generate_monthly_bill_filename(user_number, datetime) ==
    FileName(user_number, datetime, FALSE)

\* What fprintf writes for a %s whose argument may be the null pointer:
\* undefined stands for what the build does with it.
SEGV == <<-1>>
NullText == <<40, 110, 117, 108, 108, 41>>
fprintf_s(string, undefined) == IF string = NULLSTR THEN undefined ELSE string

\* open_monthly_cdr_bill and close_monthly_cdr_bill on io, the fopen and
\* fclose calls made so far with the file each was made on. broken holds the
\* names of the files fopen cannot open (open) and of those fflush cannot
\* flush (flush). A file pointer is the name of its file, NULLSTR for NULL.
open_monthly_cdr_bill(filename, io, broken) ==
    IF filename \in broken.open THEN [io |-> io, cdr_bill |-> NULLSTR]
    ELSE [io |-> Append(io, <<"fopen", filename>>), cdr_bill |-> filename]

close_monthly_cdr_bill(filepointer, io, broken) ==
    IF filepointer = NULLSTR THEN [io |-> io, ret |-> 0]
    ELSE IF filepointer \in broken.flush THEN [io |-> io, ret |-> 0]
    ELSE [io |-> Append(io, <<"fclose", filepointer>>), ret |-> 1]

\* The inner while loop as it would be had it gone on to the end of the list,
\* the month of the next call never looked at.
RECURSIVE cdr_month_loop_to_end(_, _, _, _, _, _)
cdr_month_loop_to_end(user, heap, current, current_datetime, lines, undefined) ==
    LET callee_number_censored == censor_calee_number(heap[current].callee)
        written == fprintf_s(callee_number_censored, undefined)
        line == [caller |-> user.number,
                 callee |-> written,
                 hours |-> calculate_call_hours(heap[current].duration),
                 minutes |-> calculate_call_minutes(heap[current].duration),
                 seconds |-> calculate_call_seconds(heap[current].duration),
                 year |-> heap[current].year,
                 month |-> heap[current].month,
                 day |-> heap[current].day,
                 call |-> current]
    IN  IF written = SEGV
          THEN [lines |-> lines, current |-> current, end |-> "crashed"]
        ELSE IF heap[current].next = NULLCALL
          THEN [lines |-> Append(lines, line), current |-> NULLCALL,
                end |-> "returned"]
        ELSE cdr_month_loop_to_end(user, heap, heap[current].next,
                                   current_datetime, Append(lines, line),
                                   undefined)

\* The inner while loop of generate_monthly_cdr_files from the call node
\* current on, lines being what the month's file holds so far. The result
\* tells where the loop stopped: "returned" after the last call of the list,
\* "month" at the first call of another month, "crashed".
RECURSIVE cdr_month_loop(_, _, _, _, _, _)
cdr_month_loop(user, heap, current, current_datetime, lines, undefined) ==
    LET callee_number_censored == censor_calee_number(heap[current].callee)
        written == fprintf_s(callee_number_censored, undefined)
        line == [caller |-> user.number,
                 callee |-> written,
                 hours |-> calculate_call_hours(heap[current].duration),
                 minutes |-> calculate_call_minutes(heap[current].duration),
                 seconds |-> calculate_call_seconds(heap[current].duration),
                 year |-> heap[current].year,
                 month |-> heap[current].month,
                 day |-> heap[current].day,
                 call |-> current]
    IN  IF written = SEGV
          THEN [lines |-> lines, current |-> current, end |-> "crashed"]
        ELSE IF heap[current].next = NULLCALL
          THEN [lines |-> Append(lines, line), current |-> NULLCALL,
                end |-> "returned"]
        ELSE IF current_datetime
                  = get_call_node_datetime(heap, heap[current].next)
          THEN cdr_month_loop(user, heap, heap[current].next, current_datetime,
                              Append(lines, line), undefined)
        ELSE [lines |-> Append(lines, line), current |-> heap[current].next,
              end |-> "month"]

\* The outer while loop of generate_monthly_cdr_files. out holds what has
\* been written so far, the files and the lines on stderr, and the fopen and
\* fclose calls made (io); broken holds the names of the files fopen cannot
\* open and fflush cannot flush. The file of a month is closed when the inner
\* loop is left, before the next one is opened or the function returns.
RECURSIVE cdr_loop(_, _, _, _, _, _)
cdr_loop(user, heap, current_user_call, out, broken, undefined) ==
    IF current_user_call = NULLCALL
      THEN [out |-> [out EXCEPT !.stderr = Append(@,
                        <<user.number,
                          "Cannot generate monthly bills for user with no calls">>)],
            end |-> "returned"]
    ELSE
      LET current_datetime == get_call_node_datetime(heap, current_user_call)
          filename == generate_cdr_filename(user.number, current_datetime)
          current_monthly_cdr_bill ==
              open_monthly_cdr_bill(filename, out.io, broken)
      IN  IF filename = NULLSTR
            THEN [out |-> out, end |-> "crashed"]
          ELSE IF current_monthly_cdr_bill.cdr_bill = NULLSTR
            THEN [out |-> [out EXCEPT !.stderr = Append(@,
                              <<user.number,
                                "Opening file has failed, aborting program">>)],
                  end |-> "exited"]
          ELSE
            LET month == cdr_month_loop(user, heap, current_user_call,
                                        current_datetime, <<>>, undefined)
                file == [filename |-> filename, lines |-> month.lines]
                written == [out EXCEPT !.files = Append(@, file),
                                       !.io = current_monthly_cdr_bill.io]
                closed == [written EXCEPT !.io =
                              close_monthly_cdr_bill(
                                  current_monthly_cdr_bill.cdr_bill,
                                  written.io, broken).io]
            IN  IF month.end = "month"
                  THEN cdr_loop(user, heap, month.current, closed, broken,
                                undefined)
                ELSE IF month.end = "returned"
                  THEN [out |-> closed, end |-> month.end]
                ELSE [out |-> written, end |-> month.end]

\* generate_monthly_cdr_files as it would be had it ended the process for a
\* user without calls.
generate_monthly_cdr_files_fatal(user, heap, out, broken, undefined) ==
    IF user.call_list_head = NULLCALL
      THEN [out |-> out, end |-> "exited"]
    ELSE cdr_loop(user, heap, user.call_list_head, out, broken, undefined)

\* generate_monthly_cdr_files for one user: what has been written when it
\* ends, and how it ended.
generate_monthly_cdr_files(user, heap, out, broken, undefined) ==
    cdr_loop(user, heap, user.call_list_head, out, broken, undefined)

-----------------------------------------------------------------------------
(* The monthly bills                                                       *)

JANUARY == 1
DECEMBER == 12

\* The inner while loop of generate_monthly_bill_files as it would be had it
\* not looked at the month of the call.
RECURSIVE bill_month_loop_whole(_, _, _, _, _, _)
bill_month_loop_whole(heap, current, current_datetime, total_monthly_calls, total_monthly_duration, total_mothly_bill) ==
    IF heap[current].next = NULLCALL
      THEN [current |-> NULLCALL,
            total_monthly_calls |-> total_monthly_calls + 1,
            total_monthly_duration |->
                total_monthly_duration + heap[current].duration,
            total_mothly_bill |-> total_mothly_bill + heap[current].price]
    ELSE bill_month_loop_whole(heap, heap[current].next, current_datetime,
                               total_monthly_calls + 1,
                               total_monthly_duration + heap[current].duration,
                               total_mothly_bill + heap[current].price)

\* The inner while loop of generate_monthly_bill_files from the call node
\* current on, with the three running totals of the month.
RECURSIVE bill_month_loop(_, _, _, _, _, _)
bill_month_loop(heap, current, current_datetime, total_monthly_calls, total_monthly_duration, total_mothly_bill) ==
    IF current_datetime # get_call_node_datetime(heap, current)
      THEN [current |-> current,
            total_monthly_calls |-> total_monthly_calls,
            total_monthly_duration |-> total_monthly_duration,
            total_mothly_bill |-> total_mothly_bill]
    ELSE IF heap[current].next = NULLCALL
      THEN [current |-> NULLCALL,
            total_monthly_calls |-> total_monthly_calls + 1,
            total_monthly_duration |->
                total_monthly_duration + heap[current].duration,
            total_mothly_bill |-> total_mothly_bill + heap[current].price]
    ELSE bill_month_loop(heap, heap[current].next, current_datetime,
                         total_monthly_calls + 1,
                         total_monthly_duration + heap[current].duration,
                         total_mothly_bill + heap[current].price)

\* The outer while loop of generate_monthly_bill_files. A month whose file
\* cannot be opened is passed over; a month outside January to December
\* ends the process. The month name is kept as the number of the month.
RECURSIVE bill_loop(_, _, _, _, _)
bill_loop(user, heap, current_user_call, out, broken) ==
    IF current_user_call = NULLCALL
      THEN [out |-> out, end |-> "returned"]
    ELSE
      LET current_datetime == get_call_node_datetime(heap, current_user_call)
          totals == bill_month_loop(heap, current_user_call, current_datetime,
                                    0, 0, 0)
          month == current_datetime % 100
          filename == generate_monthly_bill_filename(user.number,
                                                     current_datetime)
          file == [filename |-> filename,
                   month_string |-> month,
                   number |-> user.number,
                   calls |-> totals.total_monthly_calls,
                   hours |-> calculate_call_hours(totals.total_monthly_duration),
                   minutes |->
                       calculate_call_minutes(totals.total_monthly_duration),
                   seconds |->
                       calculate_call_seconds(totals.total_monthly_duration),
                   price |-> totals.total_mothly_bill]
          current_monthly_bill ==
              IF filename = NULLSTR THEN [io |-> out.io, cdr_bill |-> NULLSTR]
              ELSE open_monthly_cdr_bill(filename, out.io, broken)
      IN  IF month < JANUARY \/ month > DECEMBER
            THEN [out |-> [out EXCEPT !.stderr = Append(@,
                              <<user.number, "Illegal month found, aborting">>)],
                  end |-> "exited"]
          ELSE IF current_monthly_bill.cdr_bill = NULLSTR
            THEN bill_loop(user, heap, totals.current,
                           [out EXCEPT !.stderr = Append(@,
                               <<user.number, "Error generating bill">>)],
                           broken)
          ELSE bill_loop(user, heap, totals.current,
                         [out EXCEPT !.files = Append(@, file),
                                     !.io = close_monthly_cdr_bill(
                                               current_monthly_bill.cdr_bill,
                                               current_monthly_bill.io,
                                               broken).io],
                         broken)

\* generate_monthly_bill_files as it would be had it ended the process for a
\* user without calls.
generate_monthly_bill_files_fatal(user, heap, out, broken) ==
    IF user.call_list_head = NULLCALL
      THEN [out |-> [out EXCEPT !.stderr = Append(@,
                        <<user.number, "No calls, aborting">>)],
            end |-> "exited"]
    ELSE bill_loop(user, heap, user.call_list_head, out, broken)

\* generate_monthly_bill_files for one user: what has been written when it
\* ends, and how it ended.
generate_monthly_bill_files(user, heap, out, broken) ==
    bill_loop(user, heap, user.call_list_head, out, broken)

\* The nodes of a user tree.
UserNodes(tree) ==
    LET visited == traverse_users_inorder(tree)
    IN  {visited[i] : i \in DOMAIN visited}

\* traverse_users_preorder with a visit that notes the node it is given.
RECURSIVE traverse_users_preorder(_)
traverse_users_preorder(node) ==
    IF node = NULL THEN <<>>
    ELSE <<node>> \o traverse_users_preorder(node.left)
                  \o traverse_users_preorder(node.right)

\* traverse_users_preorder with calculate_user_stats as the visit.
RECURSIVE recalculate_users(_, _)
recalculate_users(node, heap) ==
    IF node = NULL THEN NULL
    ELSE [calculate_user_stats(node, heap) EXCEPT
             !.left = recalculate_users(node.left, heap),
             !.right = recalculate_users(node.right, heap)]

\* traverse_users_preorder with generate_monthly_cdr_files as the visit, from
\* the i-th node visited on: the traversal ends with the process when a visit
\* does.
RECURSIVE cdr_files_from(_, _, _, _, _, _)
cdr_files_from(visited, i, heap, out, broken, undefined) ==
    IF i > Len(visited) THEN [out |-> out, end |-> "returned"]
    ELSE LET one == generate_monthly_cdr_files(visited[i], heap, out, broken,
                                               undefined)
         IN  IF one.end # "returned" THEN one
             ELSE cdr_files_from(visited, i + 1, heap, one.out, broken,
                                 undefined)

\* traverse_users_preorder with generate_monthly_bill_files as the visit.
RECURSIVE bill_files_from(_, _, _, _, _)
bill_files_from(visited, i, heap, out, broken) ==
    IF i > Len(visited) THEN [out |-> out, end |-> "returned"]
    ELSE LET one == generate_monthly_bill_files(visited[i], heap, out, broken)
         IN  IF one.end # "returned" THEN one
             ELSE bill_files_from(visited, i + 1, heap, one.out, broken)

-----------------------------------------------------------------------------
(* The teardown                                                            *)

\* What the teardown does to the memory is kept as the sequence of its
\* accesses: <<"access", kind, a>> for a read or a write of a field of the
\* block of that kind at address a, <<"free", kind, a>> for its release. The
\* strings a node owns are blocks of their own, named by the node's address.

\* The while loop of delete_call_list on the list of the user node at owner.
RECURSIVE delete_call_list_loop(_, _, _, _)
delete_call_list_loop(heap, owner, head, accesses) ==
    IF head = NULLCALL
      THEN [accesses |-> Append(accesses, <<"access", "user", owner>>),
            head |-> head, ret |-> 1]
    ELSE delete_call_list_loop(heap, owner, heap[head].next,
            accesses \o << <<"access", "user", owner>>,
                           <<"access", "call", head>>,
                           <<"free", "callee", head>>,
                           <<"access", "call", head>>,
                           <<"access", "call", head>>,
                           <<"access", "user", owner>>,
                           <<"free", "call", head>> >>)

delete_call_list(heap, owner, head) ==
    IF head = NULLCALL
      THEN [accesses |-> << <<"access", "user", owner>> >>, head |-> head,
            ret |-> 0]
    ELSE delete_call_list_loop(heap, owner, head,
                               << <<"access", "user", owner>> >>)

\* delete_user_node as it would be had the node been released before its
\* call list.
delete_user_node_first(node, heap) ==
    LET list == delete_call_list(heap, node.addr, node.call_list_head)
    IN  [accesses |-> << <<"access", "user", node.addr>>,
                         <<"free", "number", node.addr>>,
                         <<"access", "user", node.addr>>,
                         <<"access", "user", node.addr>>,
                         <<"access", "user", node.addr>>,
                         <<"free", "user", node.addr>> >>
                      \o list.accesses,
         head |-> list.head]

\* delete_user_node: the accesses it makes and the call list head it leaves.
delete_user_node(node, heap) ==
    LET list == delete_call_list(heap, node.addr, node.call_list_head)
    IN  [accesses |-> << <<"access", "user", node.addr>>,
                         <<"free", "number", node.addr>>,
                         <<"access", "user", node.addr>> >>
                      \o list.accesses
                      \o << <<"access", "user", node.addr>>,
                            <<"access", "user", node.addr>>,
                            <<"free", "user", node.addr>> >>,
         head |-> list.head]

\* traverse_users_postorder with delete_user_node as the visit: the accesses
\* made and, for each node, the call list head it was left with.
RECURSIVE traverse_users_postorder(_, _)
traverse_users_postorder(node, heap) ==
    IF node = NULL THEN [accesses |-> <<>>, heads |-> {}]
    ELSE LET left == traverse_users_postorder(node.left, heap)
             right == traverse_users_postorder(node.right, heap)
             visit == delete_user_node(node, heap)
         IN  [accesses |-> << <<"access", "user", node.addr>> >>
                           \o left.accesses
                           \o << <<"access", "user", node.addr>> >>
                           \o right.accesses
                           \o visit.accesses,
              heads |-> left.heads \cup right.heads
                           \cup {<<node.addr, visit.head>>}]

delete_rate_node(node) ==
    << <<"access", "rate", node.addr>>,
       <<"free", "region_code", node.addr>>,
       <<"access", "rate", node.addr>>,
       <<"access", "rate", node.addr>>,
       <<"access", "rate", node.addr>>,
       <<"free", "rate", node.addr>> >>

\* traverse_rates_postorder with delete_rate_node as the visit.
RECURSIVE traverse_rates_postorder(_)
traverse_rates_postorder(node) ==
    IF node = NULL THEN <<>>
    ELSE << <<"access", "rate", node.addr>> >>
         \o traverse_rates_postorder(node.left)
         \o << <<"access", "rate", node.addr>> >>
         \o traverse_rates_postorder(node.right)
         \o delete_rate_node(node)

\* print_call_list: the call nodes it prints, in the order it prints them.
RECURSIVE print_slice(_, _, _, _, _, _)
print_slice(heap, current, i, start_index, end_index, out) ==
    IF current = NULLCALL THEN out
    ELSE LET shown == IF i >= start_index THEN Append(out, current) ELSE out
         IN  IF i > end_index THEN shown
             ELSE print_slice(heap, heap[current].next, i + 1, start_index,
                              end_index, shown)

RECURSIVE print_whole(_, _, _)
print_whole(heap, current, out) ==
    IF current = NULLCALL THEN out
    ELSE print_whole(heap, heap[current].next, Append(out, current))

print_call_list(heap, head, start_index, end_index) ==
    IF head = NULLCALL THEN <<>>
    ELSE IF start_index > end_index THEN <<>>
    ELSE IF start_index = 0 /\ end_index = 0 THEN print_whole(heap, head, <<>>)
    ELSE print_slice(heap, head, 0, start_index, end_index, <<>>)

Init ==
    /\ phase = "rates"
    /\ rate_root = NULL
    /\ user_root = NULL
    /\ calls = <<>>
    /\ brk = 0
    /\ total_call_number = 0
    /\ total_call_duration = 0
    /\ total_call_price = 0
    /\ longest_rate_match = NULL
    /\ errlog = "none"
    /\ csv_line = CallLine(<<>>, <<>>, 0, Date(0, 0, 0))
    /\ rates_seen = {}
    /\ callers_seen = {}
    /\ anonymous_seen = [number |-> 0, duration |-> 0]
    /\ insert_call_returned = -1
    /\ cdr_files = [files |-> <<>>, stderr |-> <<>>, io |-> <<>>]
    /\ bill_files = [files |-> <<>>, stderr |-> <<>>, io |-> <<>>]
    /\ released = [accesses |-> <<>>, heads |-> {}]
    /\ printed = [head |-> NULLCALL, start_index |-> 0, end_index |-> 0,
                  out |-> <<>>]

\* One pass of the loop of parse_rate_csv over a line with three fields and a
\* rate that validate_rate accepts.
ParseRateLine(env) ==
    /\ phase = "rates"
    /\ \E region_code_token \in env.region_codes, rate_token_d \in env.rates :
         LET region_code == validate_region_code(region_code_token)
         IN  IF region_code # NULLSTR
               THEN /\ add_rate_node_logs(rate_root, region_code)
                         \/ brk < env.max_nodes
                    /\ rate_root' = add_rate_node(rate_root, region_code, rate_token_d)
                    /\ brk' = IF add_rate_node_logs(rate_root, region_code)
                                THEN brk ELSE brk + 1
                    /\ errlog' = IF add_rate_node_logs(rate_root, region_code)
                                   THEN "region code already found in tree"
                                   ELSE "none"
                    /\ rates_seen' =
                         IF \E seen \in rates_seen : seen[1] = region_code
                           THEN rates_seen
                           ELSE rates_seen \cup {<<region_code, rate_token_d>>}
               ELSE /\ errlog' = "Invalid region code"
                    /\ UNCHANGED <<rate_root, brk, rates_seen>>
    /\ UNCHANGED <<phase, user_root, calls, total_call_number, total_call_duration,
                   total_call_price, longest_rate_match, csv_line, callers_seen,
                   anonymous_seen, insert_call_returned, report_vars>>

\* The end of the rate record: parse_rate_csv returns and main goes on to the
\* call record, or gives up when the tree is empty.
FinishRates ==
    /\ phase = "rates"
    /\ phase' = IF rate_root = NULL THEN "failed" ELSE "calls"
    /\ errlog' = IF rate_root = NULL THEN "No valid data in the rate record"
                                     ELSE "none"
    /\ UNCHANGED <<rate_root, user_root, calls, brk, total_call_number,
                   total_call_duration, total_call_price, longest_rate_match,
                   csv_line, rates_seen, callers_seen, anonymous_seen,
                   insert_call_returned, report_vars>>

\* One pass of the loop of parse_call_csv over a line with four fields whose
\* date sscanf has read.
ParseCallLine(env) ==
    /\ phase = "calls"
    /\ total_call_number < env.max_calls
    /\ \E caller_number_token \in env.callers, callee_number_token \in env.callees,
          duration \in env.durations, date \in env.dates,
          exhausted \in env.exhausted :
       /\ csv_line' = CallLine(caller_number_token, callee_number_token,
                               duration, date)
       /\
         IF strcmp(caller_number_token, Anonymous) = 0
           THEN /\ \E counted \in {count_anonymous(Memory, duration)} :
                     /\ calls' = counted.calls
                     /\ total_call_number' = counted.total_call_number
                     /\ total_call_duration' = counted.total_call_duration
                     /\ total_call_price' = counted.total_call_price
                /\ errlog' = "none"
                /\ anonymous_seen' =
                      [number |-> anonymous_seen.number + 1,
                       duration |-> anonymous_seen.duration + duration]
                /\ UNCHANGED <<rate_root, user_root, brk, longest_rate_match,
                               callers_seen, insert_call_returned>>
         ELSE LET caller_number == validate_phone_number(caller_number_token)
                  callee_number == validate_phone_number(callee_number_token)
              IN  IF \/ date.month > 12
                     \/ date.year > CURRENT_YEAR
                     \/ date.year < TELEPHONE_INVENTION_YEAR
                    THEN /\ errlog' = "Invalid year/month"
                         /\ UNCHANGED <<rate_root, user_root, calls, brk,
                                        total_call_number,
                                        total_call_duration, total_call_price,
                                        longest_rate_match, callers_seen,
                                        anonymous_seen, insert_call_returned>>
                  ELSE IF caller_number # NULLSTR /\ callee_number # NULLSTR
                    THEN /\ user_present(user_root, caller_number)
                              \/ brk < env.max_nodes
                         /\ \E done \in {add_user_node(user_root,
                                  [Memory EXCEPT !.exhausted = exhausted],
                                  caller_number, callee_number, duration,
                                  date.year, date.month, date.day, rate_root)} :
                             /\ user_root' = done.node
                             /\ rate_root' = done.ins.rate_tree
                             /\ calls' = done.m.calls
                             /\ total_call_number' = done.m.total_call_number
                             /\ total_call_duration' = done.m.total_call_duration
                             /\ total_call_price' = done.m.total_call_price
                             /\ insert_call_returned' = done.ins.ret
                             /\ longest_rate_match' =
                                   IF exhausted THEN longest_rate_match
                                                ELSE done.ins.match
                             /\ brk' = IF user_present(user_root, caller_number)
                                         THEN brk ELSE brk + 1
                             /\ errlog' = IF exhausted THEN "Not enough memory"
                                          ELSE IF done.ins.match = NULL
                                            THEN "No rate match found"
                                            ELSE "none"
                             /\ callers_seen' = callers_seen \cup {caller_number}
                             /\ UNCHANGED anonymous_seen
                  ELSE /\ errlog' = "Invalid caller or callee number"
                       /\ UNCHANGED <<rate_root, user_root, calls, brk,
                                      total_call_number,
                                      total_call_duration, total_call_price,
                                      longest_rate_match, callers_seen,
                                      anonymous_seen, insert_call_returned>>
    /\ UNCHANGED <<phase, rates_seen, report_vars>>

\* The end of the call record as it would be had main gone on to the reports
\* without looking at the tree parse_call_csv returned.
FinishCalls_unchecked ==
    /\ phase = "calls"
    /\ phase' = "cdr"
    /\ errlog' = IF user_root = NULL THEN "No valid data in the call record"
                                     ELSE "none"
    /\ user_root' = recalculate_users(user_root, calls)
    /\ UNCHANGED <<rate_root, calls, brk, total_call_number,
                   total_call_duration, total_call_price, longest_rate_match,
                   csv_line, rates_seen, callers_seen, anonymous_seen,
                   insert_call_returned, report_vars>>

\* The end of the call record: parse_call_csv returns, main gives up when the
\* tree is empty and otherwise has the stats of every user calculated again.
FinishCalls ==
    /\ phase = "calls"
    /\ phase' = IF user_root = NULL THEN "failed" ELSE "cdr"
    /\ errlog' = IF user_root = NULL THEN "No valid data in the call record"
                                     ELSE "none"
    /\ user_root' = recalculate_users(user_root, calls)
    /\ UNCHANGED <<rate_root, calls, brk, total_call_number,
                   total_call_duration, total_call_price, longest_rate_match,
                   csv_line, rates_seen, callers_seen, anonymous_seen,
                   insert_call_returned, report_vars>>

\* main's traversal with generate_monthly_cdr_files. The envelope gives the
\* sets of files that fopen may be unable to open and what the build may do
\* with a null string argument.
GenerateCdrFiles(env) ==
    /\ phase = "cdr"
    /\ \E broken \in env.broken_files, undefined \in env.undefined :
         \E run \in {cdr_files_from(traverse_users_preorder(user_root), 1,
                                    calls, cdr_files, broken, undefined)} :
            /\ cdr_files' = run.out
            /\ phase' = IF run.end = "returned" THEN "bills" ELSE run.end
    /\ errlog' = "none"
    /\ UNCHANGED <<rate_root, user_root, calls, brk, total_call_number,
                   total_call_duration, total_call_price, longest_rate_match,
                   csv_line, rates_seen, callers_seen, anonymous_seen,
                   insert_call_returned, bill_files, released, printed>>

\* main's traversal with generate_monthly_bill_files.
GenerateBillFiles(env) ==
    /\ phase = "bills"
    /\ \E broken \in env.broken_files :
         \E run \in {bill_files_from(traverse_users_preorder(user_root), 1,
                                     calls, bill_files, broken)} :
            /\ bill_files' = run.out
            /\ phase' = IF run.end = "returned" THEN "teardown" ELSE run.end
    /\ errlog' = "none"
    /\ UNCHANGED <<rate_root, user_root, calls, brk, total_call_number,
                   total_call_duration, total_call_price, longest_rate_match,
                   csv_line, rates_seen, callers_seen, anonymous_seen,
                   insert_call_returned, cdr_files, released, printed>>

\* main's two postorder traversals with delete_rate_node and
\* delete_user_node, after which it forgets the two roots.
Teardown ==
    /\ phase = "teardown"
    /\ phase' = "done"
    /\ \E users \in {traverse_users_postorder(user_root, calls)} :
          released' = [accesses |-> traverse_rates_postorder(rate_root)
                                       \o users.accesses,
                       heads |-> users.heads]
    /\ rate_root' = NULL
    /\ user_root' = NULL
    /\ errlog' = "none"
    /\ UNCHANGED <<calls, brk, total_call_number,
                   total_call_duration, total_call_price, longest_rate_match,
                   csv_line, rates_seen, callers_seen, anonymous_seen,
                   insert_call_returned, cdr_files, bill_files, printed>>

\* A call of print_call_list on the call list of a user with two indexes of
\* the envelope.
PrintCallList(env) ==
    /\ phase = "calls"
    /\ \E user \in UserNodes(user_root),
          start_index \in env.indexes, end_index \in env.indexes :
         printed' = [head |-> user.call_list_head, start_index |-> start_index,
                     end_index |-> end_index,
                     out |-> print_call_list(calls, user.call_list_head,
                                             start_index, end_index)]
    /\ UNCHANGED <<phase, rate_root, user_root, calls, brk, total_call_number,
                   total_call_duration, total_call_price, longest_rate_match,
                   errlog, csv_line, rates_seen, callers_seen, anonymous_seen,
                   insert_call_returned, cdr_files, bill_files, released>>

Next(env) == ParseRateLine(env) \/ FinishRates \/ ParseCallLine(env)

\* The whole of main: the loading, the two kinds of files and the teardown.
NextMain(env) ==
    \/ Next(env)
    \/ FinishCalls
    \/ GenerateCdrFiles(env)
    \/ GenerateBillFiles(env)
    \/ Teardown

\* The loading, with print_call_list called on the lists as they grow.
NextPrint(env) == Next(env) \/ PrintCallList(env)

-----------------------------------------------------------------------------
(* The runs checked                                                        *)

\* The whole pipeline on a small rate record and a small call record.
EnvBill ==
    [region_codes |-> {Str(<<1>>), Str(<<1, 2>>)},
     rates        |-> {2, 5},
     callers      |-> {Str(<<7>>), Str(<<0, 8>>), Anonymous},
     callees      |-> {Str(<<1, 2, 3, 4>>), Str(<<9, 9, 9>>)},
     durations    |-> {1, 3},
     dates        |-> {Date(2020, 1, 15), Date(2020, 2, 1)},
     exhausted    |-> {FALSE},
     max_nodes    |-> MaxBillNodes,
     max_calls    |-> MaxBillCalls]

Spec == Init /\ [][Next(EnvBill)]_vars

\* Both trees grown from many keys, every call being the same.
EnvTrees ==
    [region_codes |-> {Str(<<1>>), Str(<<1, 2>>), Str(<<2>>), <<43>> \o Str(<<3>>),
                       Str(<<0, 4>>)},
     rates        |-> {2},
     callers      |-> {Str(<<1>>), Str(<<1, 2>>), Str(<<2>>), Str(<<0, 3>>),
                       Str(<<4>>)},
     callees      |-> {Str(<<1, 2, 3, 4>>)},
     durations    |-> {1},
     dates        |-> {Date(2020, 1, 15)},
     exhausted    |-> {FALSE},
     max_nodes    |-> MaxTreeNodes,
     max_calls    |-> MaxTreeCalls]

SpecTrees == Init /\ [][Next(EnvTrees)]_vars

\* The callee numbers are the rich input: region codes that are prefixes of
\* one another, callee numbers that match several, one or none of them.
EnvMatch ==
    [region_codes |-> {Str(<<1>>), Str(<<1, 2>>), Str(<<1, 2, 3>>), <<43>> \o Str(<<2>>)},
     rates        |-> {2, 5},
     callers      |-> {Str(<<7>>)},
     callees      |-> {Str(<<1, 2, 3, 4>>), Str(<<1, 2, 4>>), Str(<<0, 1, 2, 3>>),
                       Str(<<2>>), Str(<<3, 9>>)},
     durations    |-> {3},
     dates        |-> {Date(2020, 1, 15)},
     exhausted    |-> {FALSE},
     max_nodes    |-> MaxRateNodes,
     max_calls    |-> MaxMatchCalls]

SpecMatch == Init /\ [][Next(EnvMatch)]_vars

\* The rate record is the rich input: region codes given twice, with another
\* rate and in another spelling, and a region code that is not valid.
EnvRates ==
    [region_codes |-> {Str(<<1>>), Str(<<1, 2>>), Str(<<2>>), Str(<<3>>),
                       Str(<<4, 4>>), Str(<<0, 4, 4>>), Str(<<0>>)},
     rates        |-> {2, 5},
     callers      |-> {Str(<<7>>)},
     callees      |-> {Str(<<1, 2, 3, 4>>)},
     durations    |-> {3},
     dates        |-> {Date(2020, 1, 15)},
     exhausted    |-> {FALSE},
     max_nodes    |-> MaxRateNodes,
     max_calls    |-> MaxMatchCalls]

SpecRates == Init /\ [][Next(EnvRates)]_vars

\* The dates are the rich input: calls of two subscribers arriving in every
\* order of four dates, two of them in the same month, and a date that
\* parse_call_csv rejects.
EnvList ==
    [region_codes |-> {Str(<<1>>)},
     rates        |-> {2},
     callers      |-> {Str(<<7>>), Str(<<8>>)},
     callees      |-> {Str(<<1, 2, 3, 4>>)},
     durations    |-> {3},
     dates        |-> {Date(2019, 12, 30), Date(2020, 1, 15), Date(2020, 1, 3),
                       Date(2020, 2, 1), Date(2020, 13, 1)},
     exhausted    |-> {FALSE},
     max_nodes    |-> MaxBillNodes,
     max_calls    |-> MaxListCalls]

SpecList == Init /\ [][Next(EnvList)]_vars

\* The runs of the whole of main take from their envelope, besides, the sets
\* of files that cannot be opened or flushed (broken_files) and what the
\* build does with a null string given to fprintf (undefined).

\* A file system on which every fopen and every fflush succeeds.
Working == [open |-> {}, flush |-> {}]

\* Calls of one subscriber in three months, two of them in the same year,
\* billed and not billed, with every file opened.
EnvMonths ==
    [region_codes |-> {Str(<<1>>)},
     rates        |-> {2},
     callers      |-> {Str(<<7>>)},
     callees      |-> {Str(<<1, 2, 3, 4>>), Str(<<9, 9, 9>>)},
     durations    |-> {59, 3725},
     dates        |-> {Date(2019, 12, 30), Date(2020, 1, 15), Date(2020, 1, 3),
                       Date(2020, 2, 1)},
     exhausted    |-> {FALSE},
     broken_files |-> {Working},
     undefined    |-> {NullText},
     max_nodes    |-> MaxMonthNodes,
     max_calls    |-> MaxMonthCalls]

SpecMonths == Init /\ [][NextMain(EnvMonths)]_vars

\* Durations on both sides of the minute and of the hour.
EnvClock ==
    [region_codes |-> {Str(<<1>>)},
     rates        |-> {2},
     callers      |-> {Str(<<7>>)},
     callees      |-> {Str(<<1, 2, 3, 4>>)},
     durations    |-> {0, 59, 60, 3599, 3600, 3661, 7325, 86399},
     dates        |-> {Date(2020, 1, 15), Date(2020, 2, 1)},
     exhausted    |-> {FALSE},
     broken_files |-> {Working},
     undefined    |-> {NullText},
     max_nodes    |-> MaxMonthNodes,
     max_calls    |-> MaxClockCalls]

SpecClock == Init /\ [][NextMain(EnvClock)]_vars

\* What can go wrong: malloc giving NULL to insert_call, a callee of two
\* digits, a call of month 0, files that cannot be opened, files that cannot
\* be flushed.
EnvFaults ==
    [region_codes |-> {Str(<<1>>)},
     rates        |-> {2},
     callers      |-> {Str(<<7>>), Str(<<8>>)},
     callees      |-> {Str(<<1, 2, 3, 4>>), Str(<<1, 2>>)},
     durations    |-> {3},
     dates        |-> {Date(2020, 1, 15), Date(2020, 0, 7)},
     exhausted    |-> {FALSE, TRUE},
     broken_files |-> {Working,
                       [open |-> {generate_cdr_filename(Str(<<7>>), 202001),
                                  generate_monthly_bill_filename(Str(<<8>>),
                                                                 202001)},
                        flush |-> {}],
                       [open |-> {},
                        flush |-> {generate_cdr_filename(Str(<<7>>), 202000),
                                   generate_monthly_bill_filename(Str(<<8>>),
                                                                  202001)}]},
     undefined    |-> {NullText, SEGV},
     max_nodes    |-> MaxFaultNodes,
     max_calls    |-> MaxFaultCalls]

SpecFaults == Init /\ [][NextMain(EnvFaults)]_vars

\* Two trees with children on both sides and lists of several calls, torn
\* down at the end; a subscriber may be left without calls.
EnvTeardown ==
    [region_codes |-> {Str(<<1>>), Str(<<2>>)},
     rates        |-> {2},
     callers      |-> {Str(<<7>>), Str(<<8>>), Str(<<9>>)},
     callees      |-> {Str(<<1, 2, 3, 4>>)},
     durations    |-> {3},
     dates        |-> {Date(2020, 1, 15)},
     exhausted    |-> {FALSE, TRUE},
     broken_files |-> {Working},
     undefined    |-> {NullText},
     max_nodes    |-> MaxTeardownNodes,
     max_calls    |-> MaxTeardownCalls]

SpecTeardown == Init /\ [][NextMain(EnvTeardown)]_vars

\* One list that grows to four calls, printed between every two positions.
EnvPrint ==
    [region_codes |-> {Str(<<1>>)},
     rates        |-> {2},
     callers      |-> {Str(<<7>>)},
     callees      |-> {Str(<<1, 2, 3, 4>>)},
     durations    |-> {3},
     dates        |-> {Date(2019, 12, 30), Date(2020, 1, 15), Date(2020, 2, 1)},
     exhausted    |-> {FALSE},
     indexes      |-> 0..MaxPrintIndex,
     max_nodes    |-> MaxMonthNodes,
     max_calls    |-> MaxPrintCalls]

SpecPrint == Init /\ [][NextPrint(EnvPrint)]_vars

\* One list that grows to four calls of three months, the calls arriving in
\* every order and any month more than once.
EnvPlace ==
    [region_codes |-> {Str(<<1>>)},
     rates        |-> {2},
     callers      |-> {Str(<<7>>)},
     callees      |-> {Str(<<1, 2, 3, 4>>)},
     durations    |-> {3, 7},
     dates        |-> {Date(2019, 12, 30), Date(2020, 1, 15), Date(2020, 2, 1)},
     exhausted    |-> {FALSE},
     max_nodes    |-> MaxPlaceNodes,
     max_calls    |-> MaxPlaceCalls]

SpecPlace == Init /\ [][Next(EnvPlace)]_vars

\* A catalog of three region codes, one a prefix of another, read by calls
\* that match and calls that do not, through to the teardown.
EnvCatalog ==
    [region_codes |-> {Str(<<1>>), Str(<<1, 2>>), Str(<<2>>)},
     rates        |-> {2, 5},
     callers      |-> {Str(<<7>>)},
     callees      |-> {Str(<<1, 2, 3, 4>>), Str(<<9, 9, 9>>)},
     durations    |-> {3},
     dates        |-> {Date(2020, 1, 15), Date(2020, 2, 1)},
     exhausted    |-> {FALSE},
     broken_files |-> {Working},
     undefined    |-> {NullText},
     max_nodes    |-> MaxCatalogNodes,
     max_calls    |-> MaxCatalogCalls]

SpecCatalog == Init /\ [][NextMain(EnvCatalog)]_vars

-----------------------------------------------------------------------------
(* Vocabulary of the properties                                            *)

\* The height of a subtree, counted on its shape: 0 for the empty subtree.
RECURSIVE Height(_)
Height(tree) ==
    IF tree = NULL THEN 0 ELSE 1 + max(Height(tree.left), Height(tree.right))

\* The nodes of a tree, each with the subtree below it.
RECURSIVE Nodes(_)
Nodes(tree) ==
    IF tree = NULL THEN {} ELSE {tree} \cup Nodes(tree.left) \cup Nodes(tree.right)

Size(tree) == Cardinality(Nodes(tree))

Abs(i) == IF i < 0 THEN -i ELSE i

Balanced(tree) ==
    \A node \in Nodes(tree) : Abs(Height(node.left) - Height(node.right)) <= 1

RateKeys(tree) == {node.region_code : node \in Nodes(tree)}
UserKeys(tree) == {node.number : node \in Nodes(tree)}

\* The keys in the order an in-order traversal visits them.
RateKeysInOrder(tree) ==
    LET visited == traverse_rates_inorder(tree)
    IN  [i \in 1..Len(visited) |-> visited[i].region_code]
UserKeysInOrder(tree) ==
    LET visited == traverse_users_inorder(tree)
    IN  [i \in 1..Len(visited) |-> visited[i].number]

StrictlyAscending(keys) ==
    \A i \in 1..(Len(keys) - 1) : strcmp(keys[i], keys[i + 1]) < 0

\* The first node malloc handed out after the rate record was loaded is the
\* first user node; a root with another address was put there by a rotation.
RateRootRotated == rate_root # NULL /\ rate_root.addr # 1
UserRootRotated == user_root # NULL /\ user_root.addr # Size(rate_root) + 1

-----------------------------------------------------------------------------
(* C1: after every insertion through add_rate_node or add_user_node,       *)
(* starting from the empty tree, every node of the tree has subtrees whose *)
(* heights differ by at most 1 (an empty subtree has height 0).            *)
C1_BalanceInvariant == Balanced(rate_root) /\ Balanced(user_root)

\* Both trees hold at least three nodes and have had their root rotated.
C1_Witness ==
    /\ Size(rate_root) >= 3 /\ RateRootRotated
    /\ Size(user_root) >= 3 /\ UserRootRotated

(* C2: after any sequence of add_rate_node / add_user_node calls, repeated *)
(* keys and rotations included, the in-order traversal of each tree yields *)
(* its keys in strictly ascending strcmp order, and the key set is the set *)
(* of distinct keys inserted.                                              *)
C2_OrderingInvariant ==
    /\ StrictlyAscending(RateKeysInOrder(rate_root))
    /\ StrictlyAscending(UserKeysInOrder(user_root))
    /\ Len(RateKeysInOrder(rate_root)) = Cardinality({seen[1] : seen \in rates_seen})
    /\ RateKeys(rate_root) = {seen[1] : seen \in rates_seen}
    /\ Len(UserKeysInOrder(user_root)) = Cardinality(callers_seen)
    /\ UserKeys(user_root) = callers_seen

\* Rotated trees, and a caller number that was given more than once.
C2_Witness ==
    /\ Size(rate_root) >= 3 /\ RateRootRotated
    /\ Size(user_root) >= 3 /\ UserRootRotated
    /\ Len(calls) > Size(user_root)

-----------------------------------------------------------------------------
IsPrefix(p, s) == Len(p) <= Len(s) /\ SubSeq(s, 1, Len(p)) = p

\* The nodes of the catalog whose region code is a prefix of the number.
PrefixEntries(tree, number) ==
    {node \in Nodes(tree) : IsPrefix(node.region_code, number)}

\* The call node the last insert_call made.
LastCall == calls[Len(calls)]

(* C3: search_by_longest_region_code_match returns the catalog entry whose *)
(* region code is the longest of the region codes that are prefixes of the *)
(* callee number, and no entry exactly when no region code is a prefix of  *)
(* the number.                                                             *)
C3_LongestPrefixMatch ==
    Len(calls) > 0 =>
        LET entries == PrefixEntries(rate_root, LastCall.callee)
        IN  IF entries = {} THEN longest_rate_match = NULL
            ELSE /\ longest_rate_match \in entries
                 /\ \A node \in entries :
                      Len(node.region_code) <= Len(longest_rate_match.region_code)

\* The search has returned a three digit code although a one digit code
\* matches too and no two digit code does: a miss between two matches.
C3_Witness ==
    /\ Len(calls) > 0
    /\ longest_rate_match # NULL
    /\ Len(longest_rate_match.region_code) = 3
    /\ {Len(node.region_code) : node \in PrefixEntries(rate_root, LastCall.callee)}
          = {1, 3}

\* The addresses of the call nodes of the list at head, in list order, found
\* by following next for at most fuel nodes.
RECURSIVE ListFrom(_, _, _)
ListFrom(heap, current, fuel) ==
    IF current = NULLCALL \/ fuel = 0 THEN <<>>
    ELSE <<current>> \o ListFrom(heap, heap[current].next, fuel - 1)

CallList(head) == ListFrom(calls, head, Len(calls) + 1)

Range(seq) == {seq[i] : i \in DOMAIN seq}

\* The call nodes held by the histories of the subscribers.
StoredCalls ==
    UNION {Range(CallList(user.call_list_head)) : user \in Nodes(user_root)}

\* The rate a call to number is billed at: that of the longest region code
\* that is a prefix of it, 0 when there is none.
BilledRate(number) ==
    LET entries == PrefixEntries(rate_root, number)
    IN  IF entries = {} THEN 0
        ELSE LET longest == CHOOSE node \in entries : \A other \in entries :
                                Len(other.region_code) <= Len(node.region_code)
             IN  longest.rate

-----------------------------------------------------------------------------
DuplicateLogged == errlog = "region code already found in tree"

(* C4: inserting a region code that is already in the catalog through      *)
(* add_rate_node leaves the catalog unchanged: the same key set with one   *)
(* entry for the code, the rate stored first retained, the same shape and  *)
(* the same heights.                                                       *)
C4_DuplicateLeavesCatalog ==
    /\ \A node \in Nodes(rate_root) : \A rate \in EnvRates.rates :
         add_rate_node(rate_root, node.region_code, rate) = rate_root
    /\ \A seen \in rates_seen :
         /\ Cardinality({node \in Nodes(rate_root) : node.region_code = seen[1]}) = 1
         /\ \A node \in Nodes(rate_root) :
              node.region_code = seen[1] => node.rate = seen[2]

\* A duplicate has just been given to a catalog of at least four entries
\* whose root was rotated, and its code is held below the root at rate 2.
C4_Witness ==
    /\ DuplicateLogged
    /\ Size(rate_root) >= 4 /\ RateRootRotated
    /\ \E node \in Nodes(rate_root) :
         /\ node.region_code = Str(<<4, 4>>) /\ node.rate = 2
         /\ node # rate_root

\* A pass of the loop of parse_rate_csv that gave a valid region code to
\* add_rate_node.
RateInsertStep ==
    phase = "rates" /\ phase' = "rates" /\ errlog' # "Invalid region code"

(* C5, as the claim states it: the result of add_rate_node for a duplicate *)
(* insert is distinguishable from the result of a successful insert. The   *)
(* result is the pointer returned: no duplicate insert returns the pointer *)
(* that a successful insert into the same catalog returns.                 *)
C5_DuplicateDistinguishable ==
    \A dup \in RateKeys(rate_root) :
       \A new \in {validate_region_code(t) : t \in EnvRates.region_codes}
                     \ (RateKeys(rate_root) \cup {NULLSTR}) :
          \A rate \in EnvRates.rates :
             add_rate_node(rate_root, dup, rate).addr
                # add_rate_node(rate_root, new, rate).addr

(* C5, amended: a duplicate insert is told on stderr only. add_rate_node   *)
(* writes "region code already found in tree" exactly when the code is     *)
(* already present, and then returns the root pointer it was given.        *)
C5_DuplicateLoggedOnly ==
    [][RateInsertStep =>
         /\ (rates_seen' = rates_seen) <=> DuplicateLogged'
         /\ DuplicateLogged' =>
              /\ rate_root # NULL
              /\ rate_root'.addr = rate_root.addr]_vars

\* A duplicate has just been given to a catalog of several entries.
C5_Witness == DuplicateLogged /\ Size(rate_root) >= 3 /\ RateRootRotated

-----------------------------------------------------------------------------
\* The chronological key of the call node at address a.
Key(a) == (calls[a].year * 100) + calls[a].month

(* C6: after any sequence of insert_call operations on a subscriber's call *)
(* list, in any order of arrival dates, the list is non-decreasing by the  *)
(* key year*100+month from head to tail.                                   *)
C6_ChronologicalOrder ==
    \A user \in Nodes(user_root) :
       LET list == CallList(user.call_list_head)
       IN  \A i \in 1..(Len(list) - 1) : Key(list[i]) <= Key(list[i + 1])

\* A list of at least four calls of three different months in which the call
\* that arrived last stands neither first nor last.
C6_Witness ==
    \E user \in Nodes(user_root) :
       LET list == CallList(user.call_list_head)
       IN  /\ Len(list) >= 4
           /\ Cardinality({Key(a) : a \in Range(list)}) >= 3
           /\ \E i \in 2..(Len(list) - 1) : list[i] = Len(calls)

-----------------------------------------------------------------------------
\* The sum of the field f over the call nodes at the addresses of list.
RECURSIVE SumOver(_, _, _)
SumOver(heap, list, f) ==
    IF list = <<>> THEN 0
    ELSE heap[Head(list)][f] + SumOver(heap, Tail(list), f)

(* C8: after every add_user_node call, for every subscriber node of the    *)
(* directory, total_bill is the sum of price over the calls of the node's  *)
(* call list, total_call_duration is the sum of their durations and        *)
(* total_call_number is the number of calls in the list.                   *)
C8_StatsConsistency ==
    \A user \in Nodes(user_root) :
       LET list == CallList(user.call_list_head)
       IN  /\ user.total_bill = SumOver(calls, list, "price")
           /\ user.total_call_duration = SumOver(calls, list, "duration")
           /\ user.total_call_number = Len(list)

\* Two subscribers, one of them with calls of different prices and
\* different durations, the last of them added to an existing history.
C8_Witness ==
    /\ Size(user_root) >= 2
    /\ \E user \in Nodes(user_root) :
          LET list == CallList(user.call_list_head)
          IN  /\ Len(list) >= 2
              /\ Len(calls) \in Range(list)
              /\ Cardinality({calls[a].price : a \in Range(list)}) >= 2
              /\ Cardinality({calls[a].duration : a \in Range(list)}) >= 2
              /\ user.total_bill > 0

-----------------------------------------------------------------------------
\* A tree without what its nodes hold of their call histories: the
\* addresses, the keys, the heights and the links.
RECURSIVE Skeleton(_)
Skeleton(tree) ==
    IF tree = NULL THEN NULL
    ELSE [addr |-> tree.addr, number |-> tree.number, height |-> tree.height,
          left |-> Skeleton(tree.left), right |-> Skeleton(tree.right)]

\* What a node holds of its call history: the head pointer, the call nodes
\* from head to tail and the three totals.
History(heap, user) ==
    LET list == ListFrom(heap, user.call_list_head, Len(heap) + 1)
    IN  [call_list_head |-> user.call_list_head,
         list |-> list,
         nodes |-> [i \in 1..Len(list) |-> heap[list[i]]],
         total_bill |-> user.total_bill,
         total_call_duration |-> user.total_call_duration,
         total_call_number |-> user.total_call_number]

\* A sequence without its elements equal to x.
RECURSIVE Without(_, _)
Without(seq, x) ==
    IF seq = <<>> THEN <<>>
    ELSE IF Head(seq) = x THEN Without(Tail(seq), x)
    ELSE <<Head(seq)>> \o Without(Tail(seq), x)

\* The caller number parse_call_csv hands to add_user_node for the line read
\* in this step.
CallerRead == validate_phone_number(csv_line'.caller_number_token)

\* A step in which add_user_node was called with a caller number that is in
\* the directory.
ExistingCallerStep ==
    /\ phase = "calls"
    /\ Len(calls') = Len(calls) + 1
    /\ user_present(user_root, CallerRead)

(* C9: when add_user_node is called with a caller number that is already   *)
(* in the directory, only that subscriber's node is updated: no node is    *)
(* created, the shape of the tree and all heights are unchanged (no        *)
(* rotation), the call is added to that node's history, and the call       *)
(* history and the totals of every other subscriber are unchanged.         *)
C9_ExistingCallerFrame ==
    [][ExistingCallerStep =>
         /\ brk' = brk
         /\ Skeleton(user_root') = Skeleton(user_root)
         /\ \A user \in Nodes(user_root) :
               \E after \in Nodes(user_root') :
                  /\ after.addr = user.addr
                  /\ IF user.number = CallerRead
                       THEN LET list == ListFrom(calls', after.call_list_head,
                                                 Len(calls') + 1)
                            IN  /\ Len(calls') \in Range(list)
                                /\ Without(list, Len(calls')) =
                                      CallList(user.call_list_head)
                                /\ calls'[Len(calls')].callee =
                                      validate_phone_number(
                                          csv_line'.callee_number_token)
                                /\ calls'[Len(calls')].duration = csv_line'.duration
                                /\ after.total_call_number =
                                      user.total_call_number + 1
                     ELSE History(calls', after) = History(calls, user)
    ]_vars

\* The directory holds three subscribers, and the call added last went to
\* the history of one that is not at the root and had a call before.
C9_Witness ==
    /\ Size(user_root) >= 3
    /\ \E user \in Nodes(user_root) \ {user_root} :
          LET list == CallList(user.call_list_head)
          IN  Len(list) >= 2 /\ Len(calls) \in Range(list)

-----------------------------------------------------------------------------
\* A step in which parse_call_csv read a line whose caller field is the
\* sentinel.
AnonymousStep ==
    /\ phase = "calls"
    /\ strcmp(csv_line'.caller_number_token, Anonymous) = 0

(* C10: a call record whose caller field is the sentinel "Anonymous"       *)
(* increments the global total_call_number by 1 and total_call_duration by *)
(* the record's duration, never creates or updates a subscriber node, and  *)
(* never changes total_call_price.                                         *)
C10_AnonymousExclusion ==
    [][AnonymousStep =>
         /\ total_call_number' = total_call_number + 1
         /\ total_call_duration' = total_call_duration + csv_line'.duration
         /\ total_call_price' = total_call_price
         /\ user_root' = user_root
         /\ calls' = calls
         /\ brk' = brk
    ]_vars

\* The line read last was an anonymous caller's, read when the directory
\* held a subscriber with a billed call.
C10_Witness ==
    /\ strcmp(csv_line.caller_number_token, Anonymous) = 0
    /\ user_root # NULL
    /\ total_call_price > 0
    /\ total_call_number > Len(calls)
    /\ total_call_duration > SumOver(calls, [i \in 1..Len(calls) |-> i], "duration")

-----------------------------------------------------------------------------
\* The call nodes of all the histories of a tree, history after history.
RECURSIVE Histories(_)
Histories(tree) ==
    IF tree = NULL THEN <<>>
    ELSE Histories(tree.left) \o CallList(tree.call_list_head)
            \o Histories(tree.right)

(* C11: after any sequence of processed call records the global totals    *)
(* agree with the stored data: total_call_number is the number of calls    *)
(* stored in all subscriber histories plus the number of anonymous         *)
(* records, total_call_duration is the sum of their durations, and         *)
(* total_call_price is the sum of price over the stored subscriber calls.  *)
C11_GlobalTotals ==
    LET stored == Histories(user_root)
    IN  /\ total_call_number = Len(stored) + anonymous_seen.number
        /\ total_call_duration =
              SumOver(calls, stored, "duration") + anonymous_seen.duration
        /\ total_call_price = SumOver(calls, stored, "price")

\* Two subscribers with a stored call each, one at price 0, and an anonymous
\* record.
C11_Witness ==
    /\ Size(user_root) >= 2
    /\ Len(Histories(user_root)) = 2
    /\ anonymous_seen.number = 1
    /\ \E a \in DOMAIN calls : calls[a].price = 0
    /\ total_call_price > 0

-----------------------------------------------------------------------------
\* The elements of a set of numbers in ascending order.
RECURSIVE Ascending(_)
Ascending(S) ==
    IF S = {} THEN <<>>
    ELSE LET least == CHOOSE x \in S : \A y \in S : x <= y
         IN  <<least>> \o Ascending(S \ {least})

\* The calls of a list whose chronological key is k.
CallsOfMonth(list, k) == SelectSeq(list, LAMBDA a : Key(a) = k)

\* The bills written for a subscriber, in the order they were written.
BillsOf(number) == SelectSeq(bill_files.files, LAMBDA f : f.number = number)

(* C12: for a subscriber with a non-empty, chronologically ordered call    *)
(* history, generate_monthly_bill_files emits exactly one monthly summary  *)
(* per distinct chronological key of the history, in ascending key order,  *)
(* and the call count, the total duration and the total price of each      *)
(* summary are the count, the sum of the durations and the sum of the      *)
(* prices of exactly the calls with that key.                              *)
C12_MonthlySummaries ==
    phase = "teardown" =>
      \A user \in Nodes(user_root) :
         LET list == CallList(user.call_list_head)
             keys == Ascending({Key(a) : a \in Range(list)})
             bills == BillsOf(user.number)
         IN  /\ Len(bills) = Len(keys)
             /\ \A i \in DOMAIN keys :
                  LET month == CallsOfMonth(list, keys[i])
                  IN  /\ bills[i].filename =
                            <<user.number, keys[i] % 100, keys[i] \div 100, FALSE>>
                      /\ bills[i].month_string = keys[i] % 100
                      /\ bills[i].calls = Len(month)
                      /\ (bills[i].hours * 3600) + (bills[i].minutes * 60)
                            + bills[i].seconds
                            = SumOver(calls, month, "duration")
                      /\ bills[i].minutes < 60 /\ bills[i].seconds < 60
                      /\ bills[i].price = SumOver(calls, month, "price")

\* The bills of a history of three calls have been written: one for a month
\* of two calls with different prices and durations, one for another month.
C12_Witness ==
    /\ phase = "teardown"
    /\ Len(calls) = 3
    /\ Len(bill_files.files) = 2
    /\ \E i \in DOMAIN bill_files.files :
          LET month == CallsOfMonth(CallList(user_root.call_list_head),
                          (bill_files.files[i].filename[3] * 100)
                             + bill_files.files[i].filename[2])
          IN  /\ bill_files.files[i].calls = 2
              /\ Cardinality({calls[a].price : a \in Range(month)}) = 2
              /\ Cardinality({calls[a].duration : a \in Range(month)}) = 2

-----------------------------------------------------------------------------
\* The subscribers whose call history is empty.
EmptyHistories == {user \in Nodes(user_root) : user.call_list_head = NULLCALL}

NoCallsMessage == "Cannot generate monthly bills for user with no calls"

-----------------------------------------------------------------------------
\* C14 as it was stated: insert_call returns 1 whenever it stores the new
\* call in the list, the first insertion into an empty list included.
C14_StoredReturnsOne ==
    [][Len(calls') = Len(calls) + 1 => insert_call_returned' = 1]_vars

-----------------------------------------------------------------------------
\* The positions of a sequence of accesses at which the block of that kind at
\* address a is released, and those at which it is read or written.
Releases(accesses, kind, a) ==
    {i \in DOMAIN accesses : accesses[i] = <<"free", kind, a>>}
Uses(accesses, kind, a) ==
    {i \in DOMAIN accesses : accesses[i] = <<"access", kind, a>>}

\* The block is released exactly once and never used afterwards.
ReleasedOnce(accesses, kind, a) ==
    /\ Cardinality(Releases(accesses, kind, a)) = 1
    /\ \A i \in Releases(accesses, kind, a), j \in Uses(accesses, kind, a) : j < i

-----------------------------------------------------------------------------
\* The lines of all the cdr files written.
CdrLines ==
    UNION {Range(cdr_files.files[i].lines) : i \in DOMAIN cdr_files.files}

\* C16 as it was stated: for every call of a history the callee written to
\* the cdr line is the stored callee number with exactly its last three
\* characters replaced by '*': same length, all earlier characters unchanged.
C16_CalleeMasked ==
    /\ phase # "crashed"
    /\ \A line \in CdrLines :
         LET stored == calls[line.call].callee
         IN  /\ Len(line.callee) = Len(stored)
             /\ \A k \in DOMAIN stored :
                  line.callee[k] = IF k > Len(stored) - 3 THEN Star ELSE stored[k]

-----------------------------------------------------------------------------
\* The three components of a duration as the claim gives them.
Clock(d) == [hours |-> d \div 3600, minutes |-> (d % 3600) \div 60,
             seconds |-> d % 60]

(* C17: for every duration d in seconds, calculate_call_hours(d),          *)
(* calculate_call_minutes(d) and calculate_call_seconds(d) give            *)
(* h = d div 3600, m = (d mod 3600) div 60 and s = d mod 60, so that       *)
(* h*3600 + m*60 + s = d with 0 <= m < 60 and 0 <= s < 60.                 *)
C17_Clock ==
    /\ \A line \in CdrLines :
         LET d == calls[line.call].duration
         IN  /\ [hours |-> line.hours, minutes |-> line.minutes,
                 seconds |-> line.seconds] = Clock(d)
             /\ (line.hours * 3600) + (line.minutes * 60) + line.seconds = d
             /\ line.minutes \in 0..59 /\ line.seconds \in 0..59
    /\ \A i \in DOMAIN bill_files.files :
         LET bill == bill_files.files[i]
             d == SumOver(calls,
                     CallsOfMonth(Histories(user_root),
                                  (bill.filename[3] * 100) + bill.filename[2]),
                     "duration")
         IN  phase = "teardown" =>
               /\ [hours |-> bill.hours, minutes |-> bill.minutes,
                   seconds |-> bill.seconds] = Clock(d)
               /\ bill.minutes \in 0..59 /\ bill.seconds \in 0..59

\* Cdr lines have been written for a duration with hours, minutes and seconds
\* and for one just short of the hour, and a bill for a sum of durations.
C17_Witness ==
    /\ phase = "teardown"
    /\ \E line \in CdrLines :
          line.hours >= 1 /\ line.minutes >= 1 /\ line.seconds >= 1
    /\ \E line \in CdrLines :
          line.hours = 0 /\ line.minutes = 59 /\ line.seconds = 59
    /\ \E i \in DOMAIN bill_files.files : bill_files.files[i].calls >= 2

-----------------------------------------------------------------------------
\* C18 as it was stated: print_call_list with start_index <= end_index, not
\* both 0, visits exactly the calls at the positions start_index..end_index
\* of the list, in list order, and no call outside that range.
C18_SliceExact ==
    [][printed' # printed =>
         LET list == CallList(printed'.head)
             last == IF printed'.end_index + 1 < Len(list)
                       THEN printed'.end_index + 1 ELSE Len(list)
         IN  (/\ printed'.start_index <= printed'.end_index
              /\ ~(printed'.start_index = 0 /\ printed'.end_index = 0))
               => printed'.out = SubSeq(list, printed'.start_index + 1, last)
    ]_vars

-----------------------------------------------------------------------------
Last(seq) == seq[Len(seq)]

-----------------------------------------------------------------------------
\* C20 as it was stated: every subscriber node present in the directory after
\* add_user_node returns has a non-empty call history, whatever insert_call
\* returns.
C20_HistoryNeverEmpty ==
    \A user \in Nodes(user_root) :
       CallList(user.call_list_head) # <<>> /\ user.total_call_number >= 1

-----------------------------------------------------------------------------
\* A step in which add_user_node was called and malloc gave NULL to
\* insert_call.
ExhaustedStep == phase = "calls" /\ errlog' = "Not enough memory"

\* C21 as it was stated: when an allocation fails during add_user_node or
\* insert_call the insertion is aborted and the committed state is intact:
\* the key set of the directory, every call history, the totals of every
\* subscriber and the global totals are what they were before the call.
C21_FailureLeavesStateIntact ==
    [][ExhaustedStep =>
         /\ UserKeys(user_root') = UserKeys(user_root)
         /\ \A user \in Nodes(user_root) :
               \E after \in Nodes(user_root') :
                  /\ after.number = user.number
                  /\ History(calls', after) = History(calls, user)
         /\ total_call_number' = total_call_number
         /\ total_call_duration' = total_call_duration
         /\ total_call_price' = total_call_price
    ]_vars

-----------------------------------------------------------------------------
\* A step in which insert_call linked a new call node into a list.
InsertedStep == phase = "calls" /\ Len(calls') = Len(calls) + 1

\* The list the call node at address a stands in after the step.
ListAfter(a) ==
    LET owner == CHOOSE user \in Nodes(user_root') :
                    a \in Range(ListFrom(calls', user.call_list_head,
                                         Len(calls') + 1))
    IN  [number |-> owner.number,
         list |-> ListFrom(calls', owner.call_list_head, Len(calls') + 1)]

\* The list of the subscriber with that number before the step, empty when
\* the directory did not hold the number.
ListBefore(number) ==
    LET priors == {user \in Nodes(user_root) : user.number = number}
    IN  IF priors = {} THEN <<>>
        ELSE CallList((CHOOSE user \in priors : TRUE).call_list_head)

\* The place a key takes in a list: the first when the list is empty or the
\* key is at most the head's, otherwise that of the first node with a
\* greater key, or the one after the tail when there is none.
PlaceOf(key, list) ==
    LET greater == {i \in 1..Len(list) : Key(list[i]) > key}
    IN  IF list = <<>> THEN 1
        ELSE IF key <= Key(list[1]) THEN 1
        ELSE IF greater = {} THEN Len(list) + 1
        ELSE CHOOSE i \in greater : \A j \in greater : i <= j

(* C22: insert_call places the new call at a position fixed by its key     *)
(* only: at the head when its key is <= the head's key (a call with the    *)
(* key of the head goes before it), otherwise immediately before the first *)
(* node with a strictly greater key, or at the tail when there is none (a  *)
(* call with the key of an interior node goes after all nodes of that      *)
(* key).                                                                   *)
C22_PlaceByKey ==
    [][InsertedStep =>
         LET new_node == Len(calls')
             key == (calls'[new_node].year * 100) + calls'[new_node].month
             after == ListAfter(new_node)
             before == ListBefore(after.number)
             place == PlaceOf(key, before)
         IN  after.list = SubSeq(before, 1, place - 1) \o <<new_node>>
                             \o SubSeq(before, place, Len(before))
    ]_vars

\* A list whose first two calls have one key, the later arrival standing
\* first, and which further on holds two calls of one greater key in the
\* order of their arrival.
C22_Witness ==
    \E user \in Nodes(user_root) :
       LET list == CallList(user.call_list_head)
       IN  /\ Len(list) >= 4
           /\ Key(list[1]) = Key(list[2]) /\ list[1] > list[2]
           /\ \E i \in 3..(Len(list) - 1) :
                 /\ Key(list[i]) = Key(list[i + 1])
                 /\ Key(list[i]) > Key(list[1])
                 /\ list[i] < list[i + 1]

-----------------------------------------------------------------------------
\* Every node of the tree stores the height of the subtree below it.
HeightsStored(tree) == \A node \in Nodes(tree) : node.height = Height(node)

(* C23: after every add_rate_node / add_user_node call, the height field   *)
(* stored in every node equals 1 + max(height(left), height(right))        *)
(* computed from its current children (0 for an empty subtree), the true   *)
(* height of its subtree, also for the nodes moved by single and double    *)
(* rotations.                                                              *)
C23_HeightsStored == HeightsStored(rate_root) /\ HeightsStored(user_root)

\* Each tree holds three nodes and has the third one inserted at its root,
\* where only a double rotation puts it.
C23_Witness ==
    /\ Size(rate_root) = 3 /\ rate_root.addr = 3
    /\ Size(user_root) = 3 /\ user_root.addr = Size(rate_root) + 3

-----------------------------------------------------------------------------
\* The region codes looked up: those the rate record can hold, as
\* validate_region_code hands them on, and three it never holds.
LookedUp ==
    ({validate_region_code(code) : code \in EnvRates.region_codes} \ {NULLSTR})
       \cup {Str(<<4>>), Str(<<1, 2, 3>>), Str(<<9>>)}

(* C24: after any sequence of add_rate_node calls, search_rate_tree(root,  *)
(* code) returns a node exactly when code was inserted, and the returned   *)
(* node carries that code and the rate given at its first insertion; for a *)
(* code never inserted it returns no node.                                 *)
C24_ExactLookup ==
    \A code \in LookedUp :
       LET found == search_rate_tree(rate_root, code)
       IN  IF \E seen \in rates_seen : seen[1] = code
             THEN /\ found # NULL
                  /\ found.region_code = code
                  /\ <<code, found.rate>> \in rates_seen
           ELSE found = NULL

\* A catalog of height 3 with entries at both rates, which holds the code 44
\* but not its prefix 4, after a code it holds was given once more.
C24_Witness ==
    /\ Size(rate_root) >= 4 /\ Height(rate_root) = 3
    /\ {node.rate : node \in Nodes(rate_root)} = {2, 5}
    /\ search_rate_tree(rate_root, Str(<<4, 4>>)) # NULL
    /\ search_rate_tree(rate_root, Str(<<4>>)) = NULL
    /\ DuplicateLogged

-----------------------------------------------------------------------------
\* C25 as it was stated: every call that parse_call_csv stores in the
\* directory has its date components in range, the month between 1 and 12,
\* the day between 1 and 31 and the year between 1876 and 2021; a record with
\* a month or a day outside these ranges is skipped.
C25_StoredDatesInRange ==
    \A a \in StoredCalls :
       /\ calls[a].month \in 1..12
       /\ calls[a].day \in 1..31
       /\ calls[a].year \in TELEPHONE_INVENTION_YEAR..CURRENT_YEAR

-----------------------------------------------------------------------------
(* C26: once the rate catalog is loaded it is read-only: call ingestion    *)
(* (add_user_node, insert_call, search_by_longest_region_code_match,       *)
(* search_rate_tree) and report generation never change the catalog's key  *)
(* set, rates, heights or shape.                                           *)
C26_CatalogReadOnly ==
    [][(phase = "calls" \/ phase = "cdr" \/ phase = "bills")
          => rate_root' = rate_root]_vars

\* The reports of a subscriber with a billed call and a call at price 0 have
\* been written, and the catalog of three entries, rotated at its root when
\* it was loaded, is still there.
C26_Witness ==
    /\ phase = "teardown"
    /\ Size(rate_root) = 3 /\ RateRootRotated
    /\ \E a \in StoredCalls : calls[a].price > 0
    /\ \E a \in StoredCalls : calls[a].price = 0
    /\ cdr_files.files # <<>>
    /\ bill_files.files # <<>>

-----------------------------------------------------------------------------
\* The phases from which main takes no further step: it has returned
\* failure or success, or the process was ended from inside a report.
Ended == {"failed", "done", "exited", "crashed"}

\* What one step of main may do in each phase.
PhaseStep ==
    /\ phase = "rates" =>
          /\ phase' \in {"rates", "calls", "failed"}
          /\ phase' = "calls" => rate_root # NULL /\ rate_root' = rate_root
          /\ phase' = "failed" => rate_root = NULL /\ rate_root' = rate_root
          /\ UNCHANGED <<user_root, calls, total_call_number, report_vars>>
    /\ phase = "calls" =>
          /\ phase' \in {"calls", "cdr", "failed"}
          /\ phase' = "cdr" => user_root # NULL
          /\ phase' = "failed" => user_root = NULL
          /\ phase' # "calls" => UNCHANGED <<calls, total_call_number>>
          /\ UNCHANGED <<rate_root, report_vars>>
    /\ phase = "cdr" =>
          /\ phase' \in {"bills", "exited", "crashed"}
          /\ UNCHANGED <<rate_root, user_root, calls, total_call_number,
                         bill_files, released>>
    /\ phase = "bills" =>
          /\ phase' \in {"teardown", "exited"}
          /\ UNCHANGED <<rate_root, user_root, calls, total_call_number,
                         cdr_files, released>>
    /\ phase = "teardown" =>
          /\ phase' = "done"
          /\ UNCHANGED <<calls, total_call_number, cdr_files, bill_files>>
    /\ phase \notin Ended

\* Every call of every history has the cdr file of its subscriber and month,
\* and the bill of that month unless the bill could not be opened.
ReportsWritten ==
    \A user \in Nodes(user_root) :
       \A a \in Range(CallList(user.call_list_head)) :
          /\ \E i \in DOMAIN cdr_files.files :
                cdr_files.files[i].filename =
                   generate_cdr_filename(user.number, Key(a))
          /\ \/ \E i \in DOMAIN bill_files.files :
                   bill_files.files[i].filename =
                      generate_monthly_bill_filename(user.number, Key(a))
             \/ <<user.number, "Error generating bill">>
                   \in Range(bill_files.stderr)

(* C27: in a run of main the phases are strictly ordered: all rate records *)
(* are loaded before any call record is processed, all call records are    *)
(* processed before any CDR or bill file is generated, no tree is mutated  *)
(* once report generation has begun, and teardown happens only after all   *)
(* reports are generated; when either load yields an empty tree, no report *)
(* is generated and main returns failure.                                  *)
C27_PhasesOrdered ==
    /\ [][PhaseStep]_vars
    /\ [](phase = "failed" =>
            /\ rate_root = NULL \/ user_root = NULL
            /\ cdr_files = [files |-> <<>>, stderr |-> <<>>, io |-> <<>>]
            /\ bill_files = [files |-> <<>>, stderr |-> <<>>, io |-> <<>>]
            /\ released = [accesses |-> <<>>, heads |-> {}])
    /\ [](phase = "teardown" => ReportsWritten)

\* main has returned success: the files of two subscribers were written and
\* both trees were released afterwards.
C27_Witness ==
    /\ phase = "done"
    /\ Cardinality({file.filename[1] : file \in Range(cdr_files.files)}) = 2
    /\ Cardinality({file.filename[1] : file \in Range(bill_files.files)}) = 2
    /\ released.accesses # <<>>
    /\ rate_root = NULL /\ user_root = NULL

-----------------------------------------------------------------------------
\* The cdr files written for a subscriber, in the order they were opened.
CdrFilesOf(number) ==
    SelectSeq(cdr_files.files, LAMBDA f : f.filename[1] = number)

\* The call nodes the lines of a cdr file were written from, line by line.
CallsWritten(file) == [j \in DOMAIN file.lines |-> file.lines[j].call]

(* C28: for a subscriber with a non-empty ordered history,                 *)
(* generate_monthly_cdr_files writes every call exactly once, in history   *)
(* order, into the CDR file of that call's own year/month, and opens       *)
(* exactly one CDR file per distinct chronological key of the history.     *)
C28_CdrFilesByMonth ==
    phase = "bills" =>
      \A user \in Nodes(user_root) :
         LET list == CallList(user.call_list_head)
             keys == Ascending({Key(a) : a \in Range(list)})
             files == CdrFilesOf(user.number)
         IN  /\ Len(files) = Len(keys)
             /\ \A i \in DOMAIN keys :
                  /\ files[i].filename =
                        generate_cdr_filename(user.number, keys[i])
                  /\ CallsWritten(files[i]) = CallsOfMonth(list, keys[i])
                  /\ \A j \in DOMAIN files[i].lines :
                        (files[i].lines[j].year * 100) + files[i].lines[j].month
                           = keys[i]

\* The cdr files of a history of three calls have been written, two of them,
\* and the history is not in the order in which its calls arrived.
C28_Witness ==
    /\ phase = "bills"
    /\ Len(calls) = 3
    /\ Len(cdr_files.files) = 2
    /\ CallList(user_root.call_list_head) # <<1, 2, 3>>
    /\ \E i \in DOMAIN cdr_files.files : Len(cdr_files.files[i].lines) = 2

-----------------------------------------------------------------------------
\* The files open after the first n of the fopen and fclose calls of io.
StillOpen(io, n) ==
    {io[i][2] : i \in {j \in 1..n : io[j][1] = "fopen"}}
       \ {io[i][2] : i \in {j \in 1..n : io[j][1] = "fclose"}}

\* C29 as it was stated: during CDR and bill generation at most one output
\* file is open at any time, and every file that was opened is closed before
\* the generating function returns, on every path (month change, end of
\* history, single-call history).
C29_OneFileOpen ==
    /\ \A n \in 0..Len(cdr_files.io) :
          Cardinality(StillOpen(cdr_files.io, n)) <= 1
    /\ \A n \in 0..Len(bill_files.io) :
          Cardinality(StillOpen(bill_files.io, n)) <= 1
    /\ phase \in {"bills", "teardown", "done"} =>
          StillOpen(cdr_files.io, Len(cdr_files.io)) = {}
    /\ phase \in {"teardown", "done"} =>
          StillOpen(bill_files.io, Len(bill_files.io)) = {}

-----------------------------------------------------------------------------
\* The list at head is a doubly linked list without a cycle: no node is met
\* twice, the head has no previous node, the last node met and no other has
\* no next node, and the node after a node points back to it.
WellFormed(head) ==
    LET list == CallList(head)
    IN  /\ Cardinality(Range(list)) = Len(list)
        /\ head # NULLCALL =>
             /\ calls[head].previous = NULLCALL
             /\ {a \in Range(list) : calls[a].next = NULLCALL} = {Last(list)}
        /\ \A i \in 1..(Len(list) - 1) :
             /\ calls[list[i]].next = list[i + 1]
             /\ calls[list[i + 1]].previous = list[i]

(* C30: after any sequence of insert_call operations the call list is a    *)
(* well-formed acyclic doubly linked list: the head's previous is NULL,    *)
(* exactly one node (the tail) has next NULL, for every node n with a      *)
(* successor n.next.previous = n, and the number of nodes reachable from   *)
(* the head equals the number of insert_call operations that linked a      *)
(* node.                                                                   *)
C30_WellFormedLists ==
    /\ \A user \in Nodes(user_root) : WellFormed(user.call_list_head)
    /\ Len(Histories(user_root)) = Len(calls)
    /\ Range(Histories(user_root)) = DOMAIN calls

\* The call linked last stands between two others in a list of at least
\* four, and another subscriber has a list of its own.
C30_Witness ==
    /\ Size(user_root) >= 2
    /\ \E user \in Nodes(user_root) :
          /\ Len(CallList(user.call_list_head)) >= 4
          /\ Len(calls) \in Range(CallList(user.call_list_head))
          /\ calls[Len(calls)].previous # NULLCALL
          /\ calls[Len(calls)].next # NULLCALL
          /\ calls[Len(calls)].previous # Len(calls) - 1

====
